---- MODULE Spec2Model ----
(***************************************************************************)
(* The project/task store of the planner (src/hooks/useProjectStore.ts):    *)
(* the flat task list, the project list with its cached per-project task   *)
(* lists, the priority list, and the remote documents the store writes and  *)
(* the snapshot listeners read back.                                        *)
(*                                                                         *)
(* Ids are the clock readings they are built from (`task-${Date.now()}`,    *)
(* `proj-${Date.now()}`); task ids and project ids live in separate         *)
(* collections and are never compared with each other.  A project's cached  *)
(* task list is kept as the sequence of the ids of the cached task objects: *)
(* the store reads nothing but the id of a cached task.                     *)
(***************************************************************************)
EXTENDS Integers, Sequences, FiniteSets, TLC

\* ------------------------------------------------------------------ bounds
MaxTasks == 3
MaxProjects == 2
MaxClock == 5
MaxPlanClock == 6
MaxSeeds == 2
MaxIdsLen == 3
MaxArrangeTasks == 5
MaxMemoClock == 5
MaxSyncClock == 2

\* ------------------------------------------------------- program constants
NULL == 0
DefaultProjectX == 200
DefaultProjectY == 200
InProgress == "IN_PROGRESS"
Completed == "COMPLETED"

\* Inputs the callers pass.
Deltas == {[dx |-> 10, dy |-> 5]}
TaskPositions == {[x |-> 0, y |-> 0]}

VARIABLES
  projects,            \* useState<Project[]>: sequence of project records
  tasks,               \* useState<Task[]>: sequence of task records
  prioritizedTaskIds,  \* useState<string[]>
  now,                 \* the clock Date.now() / new Date() reads
  remoteProjects,      \* users/{uid}/projects documents, ordered by id
  remoteTasks,         \* users/{uid}/tasks documents, ordered by id
  remotePrio,          \* users/{uid}/state/app .prioritizedTaskIds
  last,                \* the operation that produced this state, its arguments
                       \* and the local state it started from
  bfsStartTaskIds,        \* getAllDescendantTaskIds: its two arguments ...
  bfsAllTasks,
  bfsQueue,               \* ... and the locals of its loop
  bfsVisited,
  bfsPc,                  \* "idle", "loop" (at the while test) or "done" (returned)
  uid,                 \* useState<string | null>: the signed-in user, or NULL
  memos,               \* useState<Memo[]>
  remoteMemos,         \* users/{uid}/memos documents, ordered by id
  memoDebouncedTimers, \* useRef<Map<memoId, timer handle>>: a set of [key, value] entries
  timers,              \* the setTimeout timers of the runtime that are pending
  memoLog,             \* the updateMemo calls and the memo writes of the timers, in order
  network,             \* "instant": every remote call settles before the next
                       \* event; "slow": calls stay in flight and settle in any order
  inflight,            \* the remote calls that have not settled yet
  pendingSnapshots,    \* the collections that changed since their listener last ran
  settled,             \* the calls that have settled, in the order they did
  rejected,            \* some remote call has been rejected
  unhandled,           \* some rejection had no handler
  subscriptions,       \* the uid of every set of four snapshot listeners that
                       \* is attached and has not been unsubscribed, oldest first
  dragState            \* TaskPriorityView's useState: the dragged id and the order shown

storeVars == <<projects, tasks, prioritizedTaskIds, now,
               remoteProjects, remoteTasks, remotePrio, last>>
bfsVars == <<bfsStartTaskIds, bfsAllTasks, bfsQueue, bfsVisited, bfsPc>>
memoVars == <<uid, memos, memoDebouncedTimers, timers, memoLog>>
syncVars == <<network, inflight, pendingSnapshots, settled, rejected, unhandled>>
viewVars == <<subscriptions, dragState>>
vars == <<storeVars, bfsVars, memoVars, remoteMemos, syncVars, viewVars>>

\* ----------------------------------------------------------- array helpers
includes(s, x) == \E i \in 1..Len(s) : s[i] = x

idsOf(s) == [i \in 1..Len(s) |-> s[i].id]

hasId(s, id) == \E i \in 1..Len(s) : s[i].id = id

\* Array.prototype.find by id: the first element with that id.
findById(s, id) ==
  s[CHOOSE i \in 1..Len(s) : s[i].id = id /\ \A j \in 1..(i - 1) : s[j].id # id]

filterOut(s, x) == SelectSeq(s, LAMBDA e : e # x)

filterNotIn(s, S) == SelectSeq(s, LAMBDA e : e \notin S)

RECURSIVE uniqueFrom(_, _)
uniqueFrom(s, acc) ==
  IF s = <<>> THEN acc
  ELSE uniqueFrom(Tail(s), IF includes(acc, Head(s)) THEN acc ELSE Append(acc, Head(s)))

\* A dedup that keeps the last occurrence of each id.
unique_lastOccurrences(s) ==
  LET keep == {k \in 1..Len(s) : \A j \in (k + 1)..Len(s) : s[j] # s[k]}
      f[k \in 0..Len(s)] ==
        IF k = 0 THEN <<>> ELSE IF k \in keep THEN Append(f[k - 1], s[k]) ELSE f[k - 1]
  IN f[Len(s)]

\* Array.from(new Set(ids)): first occurrences, in order.
unique(s) == uniqueFrom(s, <<>>)

toSet(s) == {s[i] : i \in 1..Len(s)}

\* -------------------------------------------------------------- traversal
\* allTasks.filter(t => t.parentTaskId === currentTaskId), as ids.
childrenOf(currentTaskId, allTasks) ==
  idsOf(SelectSeq(allTasks, LAMBDA t : t.parentTaskId = currentTaskId))

\* A traversal that follows only the first child of a task.
pushChildren_firstOnly(queue, children, visited) ==
  IF children = <<>> THEN queue
  ELSE queue \o SelectSeq(<<Head(children)>>, LAMBDA c : ~includes(visited, c))

\* for (const child of children) if (!visited.has(child.id)) queue.push(child.id)
pushChildren(queue, children, visited) ==
  queue \o SelectSeq(children, LAMBDA c : ~includes(visited, c))

RECURSIVE bfsLoop(_, _, _)
bfsLoop(queue, visited, allTasks) ==
  IF queue = <<>> THEN visited
  ELSE LET currentTaskId == Head(queue)
           rest == Tail(queue)
       IN IF includes(visited, currentTaskId)
          THEN bfsLoop(rest, visited, allTasks)
          ELSE LET v2 == Append(visited, currentTaskId)
               IN bfsLoop(pushChildren(rest, childrenOf(currentTaskId, allTasks), v2),
                          v2, allTasks)

\* The result set in insertion order (a JS Set iterates in insertion order).
getAllDescendantTaskIds(startTaskIds, allTasks) == bfsLoop(startTaskIds, <<>>, allTasks)

\* ------------------------------------------------------------------ state
StoreInit ==
  /\ projects = <<>>
  /\ tasks = <<>>
  /\ prioritizedTaskIds = <<>>
  /\ now = 0
  /\ remoteProjects = <<>>
  /\ remoteTasks = <<>>
  /\ remotePrio = <<>>
  /\ last = [op |-> "init", a |-> NULL, b |-> NULL, delta |-> [dx |-> 0, dy |-> 0],
             prio |-> <<>>, tasks |-> <<>>, projects |-> <<>>,
             afterFinish |-> FALSE, finishPrio |-> <<>>, ids |-> <<>>,
             rowDepthById |-> <<>>, totalRows |-> 0, data |-> <<>>]

\* No traversal is in progress between two store events: within a handler
\* getAllDescendantTaskIds runs to its return.
BfsIdle ==
  /\ bfsStartTaskIds = <<>>
  /\ bfsAllTasks = <<>>
  /\ bfsQueue = <<>>
  /\ bfsVisited = <<>>
  /\ bfsPc = "idle"

\* useState({ id: null, pointerId: null, order: [] }): no drag is in progress.
\* One pointer is modelled, so pointerId is left out.
NoDrag == [id |-> NULL, order |-> <<>>]

\* The listeners the store attached when the user signed in, and no drag.
Attached ==
  /\ subscriptions = <<1>>
  /\ dragState = NoDrag

\* initialMemos: the two sample notes the store is constructed with.
\* 'memo-1' and 'memo-2' are not clock readings: they are the ids -2 and -1.
initialMemos ==
  <<[id |-> -2, position |-> [x |-> 100, y |-> 50], width |-> 208],
    [id |-> -1, position |-> [x |-> 400, y |-> 150], width |-> 208]>>

\* A user is signed in, no note has been saved, no timer is running and no
\* remote call is in flight.
SignedIn ==
  /\ uid = 1
  /\ memos = initialMemos
  /\ remoteMemos = <<>>
  /\ memoDebouncedTimers = {}
  /\ timers = {}
  /\ memoLog = <<>>
  /\ inflight = {}
  /\ pendingSnapshots = {}
  /\ rejected = FALSE
  /\ unhandled = FALSE
  /\ Attached
  /\ settled = <<>>

\* Every remote call settles before the next event.
Instant == network = "instant"

Init == StoreInit /\ BfsIdle /\ SignedIn /\ Instant

NoDelta == [dx |-> 0, dy |-> 0]

\* ids: the array handed to setPrioritizedTasks.
\* rowDepthById, totalRows: the grid autoArrangeProjectTasks computed.
\* data: the Partial<Task> handed to updateTask.
\* afterFinish / finishPrio: set by reactivateProject(p) when the operation
\* before it was finishProject(p), with the priority list that one started from.
OpD(name, a, b, delta) ==
  [op |-> name, a |-> a, b |-> b, delta |-> delta,
   prio |-> prioritizedTaskIds, tasks |-> tasks, projects |-> projects,
   afterFinish |-> FALSE, finishPrio |-> <<>>, ids |-> <<>>,
             rowDepthById |-> <<>>, totalRows |-> 0, data |-> <<>>]

Op(name, a, b) == OpD(name, a, b, NoDelta)

\* ------------------------------------------------------- remote documents
\* updateDoc: merges fields into an existing document, rejected when absent.
docExists(docs, id) == hasId(docs, id)

\* updateDoc(ref, data): the fields of data replace those of the document.
mergeDoc(d, data) == [k \in DOMAIN d |-> IF k \in DOMAIN data THEN data[k] ELSE d[k]]

patchDocs(docs, id, data) ==
  [i \in 1..Len(docs) |-> IF docs[i].id = id THEN mergeDoc(docs[i], data) ELSE docs[i]]

deleteDocs(docs, S) == SelectSeq(docs, LAMBDA d : d.id \notin S)

taskDoc(t) == t

projectDoc(p) == [id |-> p.id, status |-> p.status, isCollapsed |-> p.isCollapsed,
                  position |-> p.position]

\* One document operation of a remote call.
setDocOp(coll, d) == [kind |-> "set", coll |-> coll, id |-> d.id, data |-> d, path |-> ""]

updateDocOp(coll, id, data) ==
  [kind |-> "update", coll |-> coll, id |-> id, data |-> data, path |-> ""]

deleteDocOp(coll, id) ==
  [kind |-> "delete", coll |-> coll, id |-> id, data |-> <<>>, path |-> ""]

\* setDoc(doc(db, 'users', uid, 'state', 'app'), {prioritizedTaskIds: ids}, {merge: true})
mergeStateOp(ids) ==
  [kind |-> "merge", coll |-> "state", id |-> NULL, data |-> ids, path |-> ""]

\* deleteObject(storageRef(storage, path))
deleteObjectOp(path) ==
  [kind |-> "deleteObject", coll |-> "storage", id |-> NULL, data |-> <<>>, path |-> path]

\* One remote call: the operations it commits together (one for a single
\* write, several for a batch) and whether its call site handles a rejection
\* (.catch(() => {})).
Write(ops, caught) == [ops |-> ops, caught |-> caught]

\* The remote documents, as one value.
Remote == [tasks |-> remoteTasks, projects |-> remoteProjects,
           memos |-> remoteMemos, prio |-> remotePrio]

\* setDoc without merge: the document is created, in id order, or replaced.
putDoc(docs, d) ==
  IF docExists(docs, d.id)
  THEN [i \in 1..Len(docs) |-> IF docs[i].id = d.id THEN d ELSE docs[i]]
  ELSE SelectSeq(docs, LAMBDA e : e.id < d.id) \o <<d>> \o SelectSeq(docs, LAMBDA e : e.id > d.id)

\* The server rejects a call that updates a document that does not exist.
canCommit(R, w) ==
  \A i \in 1..Len(w.ops) : w.ops[i].kind = "update" => docExists(R[w.ops[i].coll], w.ops[i].id)

commitOp(R, o) ==
  CASE o.kind = "set" -> [R EXCEPT ![o.coll] = putDoc(@, o.data)]
    [] o.kind = "update" -> [R EXCEPT ![o.coll] = patchDocs(@, o.id, o.data)]
    [] o.kind = "delete" -> [R EXCEPT ![o.coll] = deleteDocs(@, {o.id})]
    [] o.kind = "merge" -> [R EXCEPT !.prio = o.data]
    [] OTHER -> R

RECURSIVE commitOps(_, _)
commitOps(R, ops) ==
  IF ops = <<>> THEN R ELSE commitOps(commitOp(R, Head(ops)), Tail(ops))

\* The calls of one handler settling at once, in program order: a call the
\* server rejects changes nothing.
RECURSIVE commitAll(_, _)
commitAll(R, ws) ==
  IF ws = <<>> THEN R
  ELSE commitAll(IF canCommit(R, Head(ws)) THEN commitOps(R, Head(ws).ops) ELSE R, Tail(ws))

\* The remote calls a handler makes inside `if (uid) { ... }`, uid being the
\* value the handler's closure holds.
IssueAs(user, ws) ==
  /\ IF user = NULL
     THEN UNCHANGED <<remoteTasks, remoteProjects, remoteMemos, remotePrio, inflight>>
     ELSE IF network = "instant"
     THEN /\ \E R \in {commitAll(Remote, ws)} :
               /\ remoteTasks' = R.tasks
               /\ remoteProjects' = R.projects
               /\ remoteMemos' = R.memos
               /\ remotePrio' = R.prio
          /\ UNCHANGED inflight
     ELSE /\ inflight' = inflight \cup {[seq |-> <<now', k>>, ops |-> ws[k].ops,
                                           caught |-> ws[k].caught] : k \in 1..Len(ws)}
          /\ UNCHANGED <<remoteTasks, remoteProjects, remoteMemos, remotePrio>>
  /\ UNCHANGED <<pendingSnapshots, settled, rejected, unhandled>>

Issue(ws) == IssueAs(uid, ws)

translate(pos, delta) == [x |-> pos.x + delta.dx, y |-> pos.y + delta.dy]

\* ------------------------------------------------------------- operations
addProject ==
  /\ LET newProject == [id |-> now', status |-> InProgress, tasks |-> <<>>,
                        position |-> [x |-> DefaultProjectX, y |-> DefaultProjectY],
                        isCollapsed |-> FALSE]
     IN /\ projects' = <<newProject>> \o projects
        /\ Issue(<<Write(<<setDocOp("projects", projectDoc(newProject))>>, TRUE)>>)
  /\ last' = Op("addProject", now', NULL)
  /\ UNCHANGED <<tasks, prioritizedTaskIds>>

\* An addTask that puts the new id at the head of the list.
addTaskNext_prepend(prev, id) == <<id>> \o prev

\* next = [...prioritizedTaskIds, newTask.id]
addTaskNext(prev, id) == Append(prev, id)

\* addTask as it runs in a handler whose closure holds renderedPrio for
\* prioritizedTaskIds: the updaters of setTasks and setProjects get the current
\* state, the priority list is built from the closure's.
addTaskFrom(renderedPrio, projectId, position) ==
  /\ LET newTask == [id |-> now', completed |-> FALSE, completionDate |-> NULL,
                     position |-> position, projectId |-> projectId,
                     parentTaskId |-> NULL]
     IN /\ tasks' = Append(tasks, newTask)
        /\ projects' = IF projectId # NULL
                       THEN [i \in 1..Len(projects) |->
                              IF projects[i].id = projectId
                              THEN [projects[i] EXCEPT !.tasks = Append(@, newTask.id)]
                              ELSE projects[i]]
                       ELSE projects
        /\ IF ~includes(renderedPrio, newTask.id)
           THEN /\ prioritizedTaskIds' = addTaskNext(renderedPrio, newTask.id)
                /\ Issue(<<Write(<<mergeStateOp(prioritizedTaskIds')>>, TRUE),
                           Write(<<setDocOp("tasks", taskDoc(newTask))>>, TRUE)>>)
           ELSE /\ UNCHANGED prioritizedTaskIds
                /\ Issue(<<Write(<<setDocOp("tasks", taskDoc(newTask))>>, TRUE)>>)
  /\ last' = Op("addTask", now', projectId)

\* addTask called after a render: the closure holds the current list.
addTask(projectId, position) == addTaskFrom(prioritizedTaskIds, projectId, position)

\* setTasks(prev => prev.map(...)) of linkTaskToProject.
linkTaskToProjectTasks(prev, taskId, projectId) ==
  [i \in 1..Len(prev) |->
    IF prev[i].id = taskId
    THEN [prev[i] EXCEPT !.projectId = projectId, !.parentTaskId = NULL]
    ELSE prev[i]]

\* setProjects(prev => prev.map(...)) of linkTaskToProject.
linkTaskToProjectCache(prev, taskId, projectId) ==
  [i \in 1..Len(prev) |->
    IF prev[i].id = projectId
    THEN [prev[i] EXCEPT !.tasks = Append(@, taskId)]
    ELSE prev[i]]

\* `taskToLink` is assigned inside the setTasks updater.  React runs an updater
\* during the call only when the component has no update pending (the eager-state
\* path of dispatchSetState) and otherwise during the next render, after the
\* handler has returned: both outcomes of `if (taskToLink)` occur.
linkTaskToProject(taskId, projectId, eager) ==
  /\ tasks' = linkTaskToProjectTasks(tasks, taskId, projectId)
  /\ projects' = IF eager /\ hasId(tasks, taskId)
                 THEN linkTaskToProjectCache(projects, taskId, projectId)
                 ELSE projects
  /\ Issue(<<Write(<<updateDocOp("tasks", taskId,
                       [projectId |-> projectId, parentTaskId |-> NULL])>>, TRUE)>>)
  /\ last' = Op("linkTaskToProject", taskId, projectId)
  /\ UNCHANGED prioritizedTaskIds

\* linkTaskToTask that always stamps the parent with the current time.
effectiveCompletionDate_overwrite(allTasks, parentTaskId, completionTimestamp) ==
  completionTimestamp

\* parentBefore?.completionDate ?? completionTimestamp
effectiveCompletionDate(allTasks, parentTaskId, completionTimestamp) ==
  IF hasId(allTasks, parentTaskId) /\ findById(allTasks, parentTaskId).completionDate # NULL
  THEN findById(allTasks, parentTaskId).completionDate
  ELSE completionTimestamp

\* setPrioritizedTaskIds(prev => [...prev.filter(id => id !== parentTaskId), childTaskId])
linkTaskToTaskPrio(prev, childTaskId, parentTaskId) ==
  Append(filterOut(prev, parentTaskId), childTaskId)

\* setTasks(prev => prev.map(...)) of linkTaskToTask.
linkTaskToTaskTasks(prev, childTaskId, parentTaskId, date) ==
  [i \in 1..Len(prev) |->
    IF prev[i].id = childTaskId
    THEN [prev[i] EXCEPT !.parentTaskId = parentTaskId, !.projectId = NULL]
    ELSE IF prev[i].id = parentTaskId
         THEN [prev[i] EXCEPT !.completed = TRUE, !.completionDate = date]
         ELSE prev[i]]

\* setProjects(prev => ...) of linkTaskToTask: the child leaves the first project
\* whose cached list holds it.
linkTaskToTaskCache(prev, childTaskId) ==
  LET holds(p) == includes(p.tasks, childTaskId)
      found == \E i \in 1..Len(prev) : holds(prev[i])
      first == CHOOSE i \in 1..Len(prev) :
                 holds(prev[i]) /\ \A j \in 1..(i - 1) : ~holds(prev[j])
  IN [i \in 1..Len(prev) |->
       IF found /\ prev[i].id = prev[first].id
       THEN [prev[i] EXCEPT !.tasks = filterOut(@, childTaskId)]
       ELSE prev[i]]

linkTaskToTask(childTaskId, parentTaskId) ==
  LET date == effectiveCompletionDate(tasks, parentTaskId, now')
  IN /\ prioritizedTaskIds' = linkTaskToTaskPrio(prioritizedTaskIds, childTaskId, parentTaskId)
     /\ tasks' = linkTaskToTaskTasks(tasks, childTaskId, parentTaskId, date)
     /\ projects' = linkTaskToTaskCache(projects, childTaskId)
     /\ Issue(<<Write(<<updateDocOp("tasks", childTaskId,
                          [parentTaskId |-> parentTaskId, projectId |-> NULL]),
                        updateDocOp("tasks", parentTaskId,
                          [completed |-> TRUE, completionDate |-> date])>>, TRUE)>>)
     /\ last' = Op("linkTaskToTask", childTaskId, parentTaskId)

\* unlinkTask: `taskToUnlink` is assigned inside the setProjects updater (see
\* linkTaskToProject for when the updater has run by the time it is tested).
unlinkTaskCache(prev, projectId, taskId) ==
  [i \in 1..Len(prev) |->
    IF prev[i].id = projectId
    THEN [prev[i] EXCEPT !.tasks = filterOut(@, taskId)]
    ELSE prev[i]]

unlinkTask(projectId, taskId, eager) ==
  LET taskToUnlink == /\ eager
                      /\ hasId(projects, projectId)
                      /\ includes(findById(projects, projectId).tasks, taskId)
  IN /\ projects' = unlinkTaskCache(projects, projectId, taskId)
     /\ tasks' = IF taskToUnlink
                 THEN [i \in 1..Len(tasks) |->
                        IF tasks[i].id = taskId
                        THEN [tasks[i] EXCEPT !.projectId = NULL]
                        ELSE tasks[i]]
                 ELSE tasks
     /\ Issue(<<Write(<<updateDocOp("tasks", taskId, [projectId |-> NULL])>>, TRUE)>>)
     /\ last' = Op("unlinkTask", projectId, taskId)
     /\ UNCHANGED prioritizedTaskIds

\* The while (parentId) loop of unlinkTaskFromParent, `fuel` iterations of it:
\* the project id it breaks with, NULL when the chain ends, or DIVERGES when
\* it is still walking after visiting more links than there are tasks.
DIVERGES == -1

\* The walk that takes the project of the task's own parent and stops there.
ancestorWalk_parentOnly(allTasks, parentId, fuel) ==
  IF parentId = NULL THEN NULL
  ELSE IF ~hasId(allTasks, parentId) THEN NULL
  ELSE findById(allTasks, parentId).projectId

RECURSIVE ancestorWalk(_, _, _)
ancestorWalk(allTasks, parentId, fuel) ==
  IF parentId = NULL THEN NULL
  ELSE IF ~hasId(allTasks, parentId) THEN NULL
  ELSE LET parentTask == findById(allTasks, parentId)
       IN IF parentTask.projectId # NULL THEN parentTask.projectId
          ELSE IF fuel = 0 THEN DIVERGES
          ELSE ancestorWalk(allTasks, parentTask.parentTaskId, fuel - 1)

unlinkTaskFromParent(childTaskId) ==
  IF ~hasId(tasks, childTaskId) \/ findById(tasks, childTaskId).parentTaskId = NULL
  THEN /\ last' = Op("unlinkTaskFromParent", childTaskId, NULL)
       /\ Issue(<<>>)
       /\ UNCHANGED <<projects, tasks, prioritizedTaskIds>>
  ELSE
     LET childTask == findById(tasks, childTaskId)
         ancestorProjectId == ancestorWalk(tasks, childTask.parentTaskId, Len(tasks))
     IN IF ancestorProjectId = DIVERGES
        THEN /\ last' = Op("diverged", childTaskId, NULL)
             /\ Issue(<<>>)
             /\ UNCHANGED <<projects, tasks, prioritizedTaskIds>>
        ELSE /\ tasks' = [i \in 1..Len(tasks) |->
                           IF tasks[i].id = childTaskId
                           THEN [childTask EXCEPT !.parentTaskId = NULL,
                                                  !.projectId = ancestorProjectId]
                           ELSE tasks[i]]
             /\ projects' = [i \in 1..Len(projects) |->
                              LET filtered == filterOut(projects[i].tasks, childTaskId)
                              IN IF ancestorProjectId # NULL /\ projects[i].id = ancestorProjectId
                                 THEN [projects[i] EXCEPT !.tasks = Append(filtered, childTaskId)]
                                 ELSE [projects[i] EXCEPT !.tasks = filtered]]
             /\ Issue(<<Write(<<updateDocOp("tasks", childTaskId,
                                  [parentTaskId |-> NULL, projectId |-> ancestorProjectId])>>,
                              TRUE)>>)
             /\ last' = Op("unlinkTaskFromParent", childTaskId, NULL)
             /\ UNCHANGED prioritizedTaskIds


\* The updaters of updateTask. {...t, ...taskData}: the fields of taskData
\* replace those of the task; the cached copy is merged the same way, so the
\* cached lists keep their ids.
updateTaskTasks(prev, taskId, taskData) ==
  [i \in 1..Len(prev) |-> IF prev[i].id = taskId THEN mergeDoc(prev[i], taskData) ELSE prev[i]]

\* An updateTask that takes the task out of the list on any change of its
\* completion, reopening included.
updateTaskPrio_anyCompletion(prev, taskId, taskData) ==
  IF "completed" \in DOMAIN taskData THEN filterOut(prev, taskId) ELSE prev

\* if (taskData.completed) prev.filter(id => id !== taskId)
updateTaskPrio(prev, taskId, taskData) ==
  IF "completed" \in DOMAIN taskData /\ taskData.completed THEN filterOut(prev, taskId) ELSE prev

updateTask(taskId, taskData) ==
  /\ prioritizedTaskIds' = updateTaskPrio(prioritizedTaskIds, taskId, taskData)
  /\ tasks' = updateTaskTasks(tasks, taskId, taskData)
  /\ Issue(IF DOMAIN taskData # {}
           THEN <<Write(<<updateDocOp("tasks", taskId, taskData)>>, TRUE)>>
           ELSE <<>>)
  /\ last' = [Op("updateTask", taskId, NULL) EXCEPT !.data = taskData]
  /\ UNCHANGED projects

updateTaskPosition(taskId, position) ==
  /\ tasks' = [i \in 1..Len(tasks) |->
                IF tasks[i].id = taskId THEN [tasks[i] EXCEPT !.position = position]
                ELSE tasks[i]]
  /\ Issue(<<Write(<<updateDocOp("tasks", taskId, [position |-> position])>>, TRUE)>>)
  /\ last' = Op("updateTaskPosition", taskId, NULL)
  /\ UNCHANGED <<projects, prioritizedTaskIds>>

\* The download URLs of the model: one of a stored object (".../o/<path>?alt=media")
\* and one that names no object.
ObjectURL == "https://storage/v0/b/bucket/o/users%2Fu%2Ffile?alt=media"
OtherURL == "https://example.org/file"

\* No attachment: a fileURL or a path that is undefined, null or empty.
NoFile == ""

\* u.pathname.split('/o/')[1]?.split('?')[0], decoded; null when there is none.
pathOfURL(fileURL) == IF fileURL = ObjectURL THEN "users/u/file" ELSE NoFile

\* (x as any).storagePath || null, then the path parsed out of x.fileURL.
attachmentPath(x) ==
  IF "storagePath" \in DOMAIN x /\ x.storagePath # NoFile THEN x.storagePath
  ELSE IF "fileURL" \in DOMAIN x /\ x.fileURL # NoFile THEN pathOfURL(x.fileURL)
  ELSE NoFile

\* if (path) { try { deleteObject(storageRef(storage, path)); } catch {} } for
\* each of the records xs: the promise deleteObject returns is neither awaited
\* nor given a handler, so the try block does not see its rejection.
RECURSIVE deleteObjectCalls(_)
deleteObjectCalls(xs) ==
  IF xs = <<>> THEN <<>>
  ELSE (IF attachmentPath(Head(xs)) # NoFile
        THEN <<Write(<<deleteObjectOp(attachmentPath(Head(xs)))>>, FALSE)>>
        ELSE <<>>) \o deleteObjectCalls(Tail(xs))

\* deleteTask that also clears the parentTaskId of the deleted task's children.
deleteTask_detachChildren(taskId) ==
  LET found == hasId(tasks, taskId)
      owner == IF found THEN findById(tasks, taskId).projectId ELSE NULL
      kept == SelectSeq(tasks, LAMBDA t : t.id # taskId)
  IN /\ tasks' = [i \in 1..Len(kept) |->
                   IF kept[i].parentTaskId = taskId
                   THEN [kept[i] EXCEPT !.parentTaskId = NULL]
                   ELSE kept[i]]
     /\ projects' = IF owner # NULL
                    THEN [i \in 1..Len(projects) |->
                           IF projects[i].id = owner
                           THEN [projects[i] EXCEPT !.tasks = filterOut(@, taskId)]
                           ELSE projects[i]]
                    ELSE projects
     /\ prioritizedTaskIds' = filterOut(prioritizedTaskIds, taskId)
     /\ Issue(<<Write(<<deleteDocOp("tasks", taskId)>>, TRUE)>>
                \o deleteObjectCalls(IF found THEN <<findById(tasks, taskId)>> ELSE <<>>))
     /\ last' = Op("deleteTask", taskId, NULL)

deleteTask(taskId) ==
  LET found == hasId(tasks, taskId)
      owner == IF found THEN findById(tasks, taskId).projectId ELSE NULL
  IN /\ tasks' = SelectSeq(tasks, LAMBDA t : t.id # taskId)
     /\ projects' = IF owner # NULL
                    THEN [i \in 1..Len(projects) |->
                           IF projects[i].id = owner
                           THEN [projects[i] EXCEPT !.tasks = filterOut(@, taskId)]
                           ELSE projects[i]]
                    ELSE projects
     /\ prioritizedTaskIds' = filterOut(prioritizedTaskIds, taskId)
     /\ Issue(<<Write(<<deleteDocOp("tasks", taskId)>>, TRUE)>>
                \o deleteObjectCalls(IF found THEN <<findById(tasks, taskId)>> ELSE <<>>))
     /\ last' = Op("deleteTask", taskId, NULL)

\* tasks.filter(t => t.projectId === projectId).map(t => t.id)
directTaskIdsOf(allTasks, projectId) ==
  idsOf(SelectSeq(allTasks, LAMBDA t : t.projectId = projectId))

\* deleteProject that removes the project's direct tasks only.
allTaskIdsToDelete_directOnly(allTasks, projectId) ==
  toSet(directTaskIdsOf(allTasks, projectId))

\* getAllDescendantTaskIds(directTaskIds, tasks) of deleteProject.
allTaskIdsToDelete(allTasks, projectId) ==
  toSet(getAllDescendantTaskIds(directTaskIdsOf(allTasks, projectId), allTasks))

deleteProject(projectId) ==
  LET toDelete == allTaskIdsToDelete(tasks, projectId)
      deleted == SelectSeq(getAllDescendantTaskIds(directTaskIdsOf(tasks, projectId), tasks),
                           LAMBDA id : id \in toDelete)
  IN /\ tasks' = SelectSeq(tasks, LAMBDA t : t.id \notin toDelete)
     /\ projects' = SelectSeq(projects, LAMBDA p : p.id # projectId)
     /\ prioritizedTaskIds' = filterNotIn(prioritizedTaskIds, toDelete)
     /\ Issue(<<Write(<<deleteDocOp("projects", projectId)>>
                        \o [i \in 1..Len(deleted) |-> deleteDocOp("tasks", deleted[i])], TRUE)>>
                \o deleteObjectCalls(IF hasId(projects, projectId)
                                     THEN <<findById(projects, projectId)>> ELSE <<>>)
                \o deleteObjectCalls(SelectSeq(tasks, LAMBDA t : t.id \in toDelete)))
     /\ last' = Op("deleteProject", projectId, NULL)

\* finishProject: the ids struck from the priority list, seeded from the
\* project's cached list (projectToFinish.tasks.map(t => t.id)).
finishProjectTree(projectToFinish, allTasks) ==
  toSet(getAllDescendantTaskIds(projectToFinish.tasks, allTasks))

setStatus(prev, projectId, status, isCollapsed) ==
  [i \in 1..Len(prev) |->
    IF prev[i].id = projectId
    THEN [prev[i] EXCEPT !.status = status, !.isCollapsed = isCollapsed]
    ELSE prev[i]]

finishProject(projectId) ==
  /\ hasId(projects, projectId)
  /\ LET allTaskIdsInProjectTree == finishProjectTree(findById(projects, projectId), tasks)
     IN prioritizedTaskIds' = filterNotIn(prioritizedTaskIds, allTaskIdsInProjectTree)
  /\ projects' = setStatus(projects, projectId, Completed, TRUE)
  /\ Issue(<<Write(<<updateDocOp("projects", projectId,
                       [status |-> Completed, isCollapsed |-> TRUE])>>, TRUE)>>)
  /\ last' = Op("finishProject", projectId, NULL)
  /\ UNCHANGED tasks

\* allTaskIds.filter(id => { const t = tasks.find(x => x.id === id);
\*                            return t ? !t.completed : true; })
activeIdsOf(allTaskIds, allTasks) ==
  SelectSeq(allTaskIds,
            LAMBDA id : IF hasId(allTasks, id) THEN ~findById(allTasks, id).completed ELSE TRUE)

\* reactivateProject that puts the project's tasks at the head of the list.
reactivatePrio_prepend(prev, projectId, allTasks) ==
  LET allTaskIds == getAllDescendantTaskIds(directTaskIdsOf(allTasks, projectId), allTasks)
      activeIds == activeIdsOf(allTaskIds, allTasks)
  IN IF Len(activeIds) > 0 THEN unique(activeIds \o prev) ELSE prev

\* [...prioritizedTaskIds, ...activeIds] handed to setPrioritizedTasks.
reactivatePrio(prev, projectId, allTasks) ==
  LET allTaskIds == getAllDescendantTaskIds(directTaskIdsOf(allTasks, projectId), allTasks)
      activeIds == activeIdsOf(allTaskIds, allTasks)
  IN IF Len(activeIds) > 0 THEN unique(prev \o activeIds) ELSE prev

reactivateProject(projectId) ==
  LET allTaskIds == getAllDescendantTaskIds(directTaskIdsOf(tasks, projectId), tasks)
      activeIds == activeIdsOf(allTaskIds, tasks)
  IN /\ projects' = setStatus(projects, projectId, InProgress, FALSE)
     /\ prioritizedTaskIds' = reactivatePrio(prioritizedTaskIds, projectId, tasks)
     /\ Issue(<<Write(<<updateDocOp("projects", projectId,
                          [status |-> InProgress, isCollapsed |-> FALSE])>>, TRUE)>>
                \o (IF Len(activeIds) > 0
                    THEN <<Write(<<mergeStateOp(prioritizedTaskIds')>>, TRUE)>>
                    ELSE <<>>))
     /\ last' = IF last.op = "finishProject" /\ last.a = projectId
                THEN [Op("reactivateProject", projectId, NULL)
                        EXCEPT !.afterFinish = TRUE, !.finishPrio = last.prio]
                ELSE Op("reactivateProject", projectId, NULL)
     /\ UNCHANGED tasks

toggleProjectCollapse(projectId) ==
  /\ hasId(projects, projectId)
  /\ LET collapsed == ~findById(projects, projectId).isCollapsed
     IN /\ projects' = [i \in 1..Len(projects) |->
                         IF projects[i].id = projectId
                         THEN [projects[i] EXCEPT !.isCollapsed = ~@]
                         ELSE projects[i]]
        /\ Issue(<<Write(<<updateDocOp("projects", projectId,
                             [isCollapsed |-> collapsed])>>, TRUE)>>)
  /\ last' = Op("toggleProjectCollapse", projectId, NULL)
  /\ UNCHANGED <<tasks, prioritizedTaskIds>>

setPrioritizedTasks(ids) ==
  /\ prioritizedTaskIds' = unique(ids)
  /\ Issue(<<Write(<<mergeStateOp(unique(ids))>>, TRUE)>>)
  /\ last' = [Op("setPrioritizedTasks", NULL, NULL) EXCEPT !.ids = ids]
  /\ UNCHANGED <<projects, tasks>>


\* directTaskIdSet of moveProjectGroup: the cached ids, then the ids of the flat
\* list's tasks of the project, each once.
moveDirectTaskIds(projectToMove, allTasks) ==
  unique(projectToMove.tasks \o directTaskIdsOf(allTasks, projectToMove.id))

\* moveProjectGroup that moves the project's direct tasks only.
allTaskIdsToMove_directOnly(projectToMove, allTasks) ==
  toSet(moveDirectTaskIds(projectToMove, allTasks))

allTaskIdsToMove(projectToMove, allTasks) ==
  toSet(getAllDescendantTaskIds(moveDirectTaskIds(projectToMove, allTasks), allTasks))

\* tasks.map(t => idsToMove.has(t.id) ? {...t, position: t.position + delta} : t)
moveTasks(allTasks, idsToMove, delta) ==
  [i \in 1..Len(allTasks) |->
    IF allTasks[i].id \in idsToMove
    THEN [allTasks[i] EXCEPT !.position = translate(@, delta)]
    ELSE allTasks[i]]

\* The batch.update calls for the positions of the local tasks that moved.
positionUpdates(updatedTasks, idsToMove) ==
  LET moved == SelectSeq(updatedTasks, LAMBDA t : t.id \in idsToMove)
  IN [i \in 1..Len(moved) |-> updateDocOp("tasks", moved[i].id, [position |-> moved[i].position])]

\* moveProjectGroup as it runs in a handler whose closure holds
\* renderedProjects and renderedTasks for projects and tasks: setTasks and
\* setProjects get arrays computed from the closure's.
moveProjectGroupFrom(renderedProjects, renderedTasks, projectId, delta) ==
  /\ hasId(renderedProjects, projectId)
  /\ LET projectToMove == findById(renderedProjects, projectId)
         idsToMove == allTaskIdsToMove(projectToMove, renderedTasks)
         updatedTasks == moveTasks(renderedTasks, idsToMove, delta)
         updatedProjects ==
           [i \in 1..Len(renderedProjects) |->
             IF renderedProjects[i].id = projectId
             THEN [renderedProjects[i] EXCEPT !.position = translate(@, delta),
                                              !.tasks = directTaskIdsOf(updatedTasks, projectId)]
             ELSE renderedProjects[i]]
     IN /\ tasks' = updatedTasks
        /\ projects' = updatedProjects
        /\ Issue(<<Write(<<updateDocOp("projects", projectId,
                             [position |-> findById(updatedProjects, projectId).position])>>
                           \o positionUpdates(updatedTasks, idsToMove), TRUE)>>)
  /\ last' = OpD("moveProjectGroup", projectId, NULL, delta)
  /\ UNCHANGED prioritizedTaskIds

\* moveProjectGroup called after a render: the closure holds the current state.
moveProjectGroup(projectId, delta) == moveProjectGroupFrom(projects, tasks, projectId, delta)

\* moveTaskSubtree that moves the root task only.
taskSubtreeIdsToMove_rootOnly(rootTaskId, allTasks) ==
  {rootTaskId}

\* getAllDescendantTaskIds([rootTaskId], tasks)
taskSubtreeIdsToMove(rootTaskId, allTasks) ==
  toSet(getAllDescendantTaskIds(<<rootTaskId>>, allTasks))

moveTaskSubtree(rootTaskId, delta) ==
  /\ IF (delta.dx = 0 /\ delta.dy = 0) \/ ~hasId(tasks, rootTaskId)
     THEN UNCHANGED tasks /\ Issue(<<>>)
     ELSE LET idsToMove == taskSubtreeIdsToMove(rootTaskId, tasks)
              updatedTasks == moveTasks(tasks, idsToMove, delta)
          IN /\ tasks' = updatedTasks
             /\ Issue(<<Write(positionUpdates(updatedTasks, idsToMove), TRUE)>>)
  /\ last' = OpD("moveTaskSubtree", rootTaskId, NULL, delta)
  /\ UNCHANGED <<projects, prioritizedTaskIds>>

\* ------------------------------------------------- autoArrangeProjectTasks
rowSpacing == 140
colSpacing == 280

\* String.prototype.localeCompare on the titles of the model, as their rank.
Titles == {"a", "b"}
titleRank == [a |-> 1, b |-> 2]

\* taskSorter(a, b) < 0
taskSorter(a, b) ==
  \/ titleRank[a.title] < titleRank[b.title]
  \/ a.title = b.title /\ a.id < b.id

\* A sort that leaves the list as it is.
sortTasks_none(list) == list

\* list.sort(taskSorter): the element with k - 1 elements before it comes k-th.
sortTasks(list) ==
  [k \in 1..Len(list) |->
     CHOOSE t \in toSet(list) :
       Cardinality({u \in toSet(list) : taskSorter(u, t)}) = k - 1]

\* childrenByParent.get(id) || [], after childrenByParent.forEach(list => list.sort(taskSorter))
arrangeChildren(allTasks, id) ==
  idsOf(sortTasks(SelectSeq(allTasks, LAMBDA t : t.parentTaskId = id)))

\* roots, after roots.sort(taskSorter)
arrangeRoots(allTasks, projectId) ==
  idsOf(sortTasks(SelectSeq(allTasks,
          LAMBDA t : t.projectId = projectId /\ t.parentTaskId = NULL)))

\* collectDescendants(task), and the loops that call it on a list of tasks.
RECURSIVE collectDescendants(_, _, _)
RECURSIVE collectEach(_, _, _)
collectEach(ids, allTasks, inProjectSet) ==
  IF ids = <<>> THEN inProjectSet
  ELSE collectEach(Tail(ids), allTasks, collectDescendants(Head(ids), allTasks, inProjectSet))

collectDescendants(id, allTasks, inProjectSet) ==
  IF id \in inProjectSet THEN inProjectSet
  ELSE collectEach(childrenOf(id, allTasks), allTasks, inProjectSet \cup {id})

\* (childrenByParent.get(taskId) || []).filter(k => inProjectSet.has(k.id))
arrangeKids(allTasks, inProjectSet, taskId) ==
  SelectSeq(arrangeChildren(allTasks, taskId), LAMBDA k : k \in inProjectSet)

RECURSIVE getSubtreeRows(_, _, _)
RECURSIVE sumSubtreeRows(_, _, _)
sumSubtreeRows(allTasks, inProjectSet, kids) ==
  IF kids = <<>> THEN 0
  ELSE getSubtreeRows(allTasks, inProjectSet, Head(kids))
         + sumSubtreeRows(allTasks, inProjectSet, Tail(kids))

getSubtreeRows(allTasks, inProjectSet, taskId) ==
  LET kids == arrangeKids(allTasks, inProjectSet, taskId)
      sum == sumSubtreeRows(allTasks, inProjectSet, kids)
  IN IF kids = <<>> THEN 1
     ELSE IF sum > 1 THEN sum ELSE 1

\* An assign that puts a task with more than one row below its band.
assignRow_belowBand(startRow, rows) ==
  IF rows > 1 THEN startRow + rows ELSE startRow

\* An assign that puts a task on the first row of its band.
assignRow_top(startRow, rows) ==
  startRow

\* myRow = startRow + Math.floor((rows - 1) / 2)
assignRow(startRow, rows) ==
  startRow + ((rows - 1) \div 2)

\* assign(t, depth, startRow), as the entries it adds to rowDepthById, and its
\* loop over the kids.
RECURSIVE assign(_, _, _, _, _)
RECURSIVE assignKids(_, _, _, _, _)
assignKids(allTasks, inProjectSet, kids, depth, s) ==
  IF kids = <<>> THEN <<>>
  ELSE assign(allTasks, inProjectSet, Head(kids), depth, s)
         \o assignKids(allTasks, inProjectSet, Tail(kids), depth,
                       s + getSubtreeRows(allTasks, inProjectSet, Head(kids)))

assign(allTasks, inProjectSet, t, depth, startRow) ==
  LET rows == getSubtreeRows(allTasks, inProjectSet, t)
  IN <<[id |-> t, row |-> assignRow(startRow, rows), depth |-> depth]>>
       \o assignKids(allTasks, inProjectSet, arrangeKids(allTasks, inProjectSet, t),
                     depth + 1, startRow)

\* for (const r of roots) { assign(r, 1, currentRow); currentRow += need + 1 }
RECURSIVE assignRoots(_, _, _, _)
assignRoots(allTasks, inProjectSet, roots, currentRow) ==
  IF roots = <<>> THEN <<>>
  ELSE assign(allTasks, inProjectSet, Head(roots), 1, currentRow)
         \o assignRoots(allTasks, inProjectSet, Tail(roots),
                        currentRow + getSubtreeRows(allTasks, inProjectSet, Head(roots)) + 1)

RECURSIVE finalCurrentRow(_, _, _, _)
finalCurrentRow(allTasks, inProjectSet, roots, currentRow) ==
  IF roots = <<>> THEN currentRow
  ELSE finalCurrentRow(allTasks, inProjectSet, Tail(roots),
                       currentRow + getSubtreeRows(allTasks, inProjectSet, Head(roots)) + 1)

\* A rowToY that counts the rows from the project's y downwards.
rowToY_fromTop(centerY, totalRows, row) ==
  centerY + row * rowSpacing

\* rowToY(row) = centerY + (row - (totalRows - 1) / 2) * rowSpacing. The bracket
\* is a whole or a half number and rowSpacing is even, so the product is the
\* integer computed here.
rowToY(centerY, totalRows, row) ==
  centerY + ((2 * row - (totalRows - 1)) * rowSpacing) \div 2

arrangedPosition(project, totalRows, rd) ==
  [x |-> project.position.x + rd.depth * colSpacing,
   y |-> rowToY(project.position.y, totalRows, rd.row)]

\* A setTasks updater that also puts the project's tasks that got no grid cell
\* at the project's own position.
arrangeTasksUpdater_allOfProject(prev, project, totalRows, rowDepthById) ==
  [i \in 1..Len(prev) |->
     IF hasId(rowDepthById, prev[i].id)
     THEN [prev[i] EXCEPT !.position = arrangedPosition(project, totalRows, findById(rowDepthById, prev[i].id))]
     ELSE IF prev[i].projectId = project.id
          THEN [prev[i] EXCEPT !.position = project.position]
          ELSE prev[i]]

\* prev.map(t => newPositions.has(t.id) ? {...t, position: newPositions.get(t.id)} : t)
arrangeTasksUpdater(prev, project, totalRows, rowDepthById) ==
  [i \in 1..Len(prev) |->
     IF hasId(rowDepthById, prev[i].id)
     THEN [prev[i] EXCEPT !.position = arrangedPosition(project, totalRows, findById(rowDepthById, prev[i].id))]
     ELSE prev[i]]

\* Each local of the function is bound to its value once.
autoArrangeProjectTasks(projectId) ==
  \E roots \in {arrangeRoots(tasks, projectId)} :
  \E inProjectSet \in {collectEach(roots, tasks, {})} :
  \E rowDepthById \in {assignRoots(tasks, inProjectSet, roots, 0)} :
  \E currentRow \in {finalCurrentRow(tasks, inProjectSet, roots, 0)} :
  \E totalRows \in {IF currentRow > 0 THEN currentRow - 1 ELSE 0} :
     IF ~hasId(projects, projectId) \/ rowDepthById = <<>>
     THEN /\ last' = Op("autoArrangeProjectTasks", projectId, NULL)
          /\ Issue(<<>>)
          /\ UNCHANGED <<projects, tasks, prioritizedTaskIds>>
     ELSE \E project \in {findById(projects, projectId)} :
          \E arranged \in {idsOf(rowDepthById)} :
          \E updatedTasks \in {arrangeTasksUpdater(tasks, project, totalRows, rowDepthById)} :
             /\ tasks' = updatedTasks
             /\ Issue(<<Write([i \in 1..Len(rowDepthById) |->
                                 updateDocOp("tasks", rowDepthById[i].id,
                                   [position |-> arrangedPosition(project, totalRows, rowDepthById[i])])],
                              TRUE)>>)
             /\ last' = [Op("autoArrangeProjectTasks", projectId, NULL)
                           EXCEPT !.rowDepthById = rowDepthById, !.totalRows = totalRows]
             /\ UNCHANGED <<projects, prioritizedTaskIds>>

\* ------------------------------------------------------------------ notes
\* The delay of the debounce timer, in milliseconds and in clock readings:
\* where timers run, the clock reads tenths of a second.
debounceMs == 200
debounceTicks == debounceMs \div 100

\* Map.get, Map.set, Map.delete on memoDebouncedTimers.
mapGet_none(map, key) == NULL

mapGet(map, key) ==
  IF \E e \in map : e.key = key THEN (CHOOSE e \in map : e.key = key).value ELSE NULL

mapSet(map, key, value) == {e \in map : e.key # key} \cup {[key |-> key, value |-> value]}

mapDelete(map, key) == {e \in map : e.key # key}

\* clearTimeout(handle): the timer, if it is still pending, never runs.
clearTimeout_none(pending, handle) == pending

clearTimeout(pending, handle) == {t \in pending : t.handle # handle}

\* One entry of the log of note edits and note writes.
MemoEvent(kind, memoId, payload) == [kind |-> kind, id |-> memoId, at |-> now', payload |-> payload]

addMemo(memoData) ==
  LET newMemo == [id |-> now', position |-> memoData.position, width |-> memoData.width]
  IN /\ memos' = Append(memos, newMemo)
     /\ Issue(<<Write(<<setDocOp("memos", newMemo)>>, TRUE)>>)
     /\ last' = Op("addMemo", newMemo.id, NULL)
     /\ UNCHANGED <<uid, memoDebouncedTimers, timers, memoLog, projects, tasks, prioritizedTaskIds>>

\* The timer's handle is the clock reading it was created at; its callback
\* keeps the uid, the note id and the payload of the call that created it.
updateMemo(memoId, memoData) ==
  /\ memos' = [i \in 1..Len(memos) |->
                IF memos[i].id = memoId THEN mergeDoc(memos[i], memoData) ELSE memos[i]]
  /\ IF uid # NULL /\ DOMAIN memoData # {}
     THEN LET existing == mapGet(memoDebouncedTimers, memoId)
              timer == [handle |-> now', uid |-> uid, memoId |-> memoId,
                        payload |-> memoData, due |-> now' + debounceTicks]
          IN /\ timers' = (IF existing # NULL THEN clearTimeout(timers, existing) ELSE timers)
                            \cup {timer}
             /\ memoDebouncedTimers' = mapSet(memoDebouncedTimers, memoId, timer.handle)
     ELSE UNCHANGED <<timers, memoDebouncedTimers>>
  /\ memoLog' = Append(memoLog, MemoEvent("edit", memoId, memoData))
  /\ Issue(<<>>)
  /\ last' = [Op("updateMemo", memoId, NULL) EXCEPT !.data = memoData]
  /\ UNCHANGED <<uid, projects, tasks, prioritizedTaskIds>>

\* The callback of a debounce timer.
memoTimer(t) ==
  /\ t \in timers
  /\ timers' = timers \ {t}
  /\ IssueAs(t.uid, <<Write(<<updateDocOp("memos", t.memoId, t.payload)>>, TRUE)>>)
  /\ memoDebouncedTimers' = mapDelete(memoDebouncedTimers, t.memoId)
  /\ memoLog' = Append(memoLog, MemoEvent("write", t.memoId, t.payload))
  /\ last' = [Op("memoTimer", t.memoId, NULL) EXCEPT !.data = t.payload]
  /\ UNCHANGED <<uid, memos, projects, tasks, prioritizedTaskIds>>

deleteMemo(memoId) ==
  /\ memos' = SelectSeq(memos, LAMBDA m : m.id # memoId)
  /\ Issue(<<Write(<<deleteDocOp("memos", memoId)>>, TRUE)>>)
  /\ last' = Op("deleteMemo", memoId, NULL)
  /\ UNCHANGED <<uid, memoDebouncedTimers, timers, memoLog, projects, tasks, prioritizedTaskIds>>

\* onAuthStateChanged delivers null: the user has signed out.  The timers and
\* the remote calls in flight are left to run.
signOut ==
  /\ uid # NULL
  /\ uid' = NULL
  /\ projects' = <<>>
  /\ tasks' = <<>>
  /\ memos' = initialMemos
  /\ prioritizedTaskIds' = <<>>
  /\ last' = Op("signOut", NULL, NULL)
  /\ UNCHANGED <<memoDebouncedTimers, timers, memoLog, remoteTasks, remoteProjects,
                 remoteMemos, remotePrio, syncVars>>

\* onAuthStateChanged delivers a user: the store keeps the uid and attaches a
\* projects, a tasks, a memos and a state listener.  The function the callback
\* returns is not called by anyone, so nothing detaches them.
signIn(user) ==
  /\ uid' = user
  /\ subscriptions' = Append(subscriptions, user)
  /\ last' = Op("signIn", user, NULL)
  /\ UNCHANGED <<projects, tasks, prioritizedTaskIds, memos, memoDebouncedTimers, timers,
                 memoLog, remoteTasks, remoteProjects, remoteMemos, remotePrio, syncVars>>

\* The server ends the listeners of a user who has signed out, when its rules
\* refuse reads without a user; when they do not, the listeners stay.
listenersRevoked ==
  /\ uid = NULL
  /\ subscriptions # <<>>
  /\ subscriptions' = <<>>
  /\ last' = Op("listenersRevoked", NULL, NULL)
  /\ UNCHANGED <<projects, tasks, prioritizedTaskIds, memoVars,
                 remoteTasks, remoteProjects, remoteMemos, remotePrio, syncVars>>

\* The cleanup of the store's last effect, run when the component that uses
\* the store unmounts: every timer the map holds is cleared and the map is
\* emptied.  The log keeps the moment.
RECURSIVE clearAll(_, _)
clearAll(pending, map) ==
  IF map = {} THEN pending
  ELSE LET e == CHOOSE e \in map : TRUE
       IN clearAll(clearTimeout(pending, e.value), map \ {e})

unmount ==
  /\ timers' = clearAll(timers, memoDebouncedTimers)
  /\ memoDebouncedTimers' = {}
  /\ memoLog' = Append(memoLog, MemoEvent("unmount", NULL, <<>>))
  /\ Issue(<<>>)
  /\ last' = Op("unmount", NULL, NULL)
  /\ UNCHANGED <<uid, memos, projects, tasks, prioritizedTaskIds>>

\* ------------------------------------------------ readers of the priority list
\* findRootProject(taskId) of Dashboard, findRoot of ProjectView and
\* findRootProjectForTask of ProjectsView, the same loop three times: the
\* project of the nearest task on the parent chain that carries a projectId,
\* null when the chain ends, repeats, or names a project that is not loaded.
\* The null a lookup of a project returns, as a record without a status.
noProject == [id |-> NULL]

RECURSIVE findRootProject(_, _, _, _)
findRootProject(allTasks, allProjects, currentId, visited) ==
  IF currentId = NULL \/ currentId \in visited THEN noProject
  ELSE IF ~hasId(allTasks, currentId) THEN noProject
  ELSE LET task == findById(allTasks, currentId)
       IN IF task.projectId # NULL
          THEN IF hasId(allProjects, task.projectId)
               THEN findById(allProjects, task.projectId)
               ELSE noProject
          ELSE findRootProject(allTasks, allProjects, task.parentTaskId,
                               visited \cup {currentId})

\* Dashboard: the filter of filteredPrioritized,
\* root?.status === ProjectStatus.InProgress.
dashboardShows(id) ==
  /\ hasId(tasks, id)
  /\ ~findById(tasks, id).completed
  /\ \E root \in {findRootProject(tasks, projects, id, {})} :
       root.id # NULL /\ root.status = InProgress

filteredPrioritized == SelectSeq(prioritizedTaskIds, dashboardShows)

\* ProjectView and ProjectsView: the filter of prioritizedDisplayOrder and of
\* tasksForPrioritization, !root || root?.status === ProjectStatus.InProgress.
listShows(id) ==
  /\ hasId(tasks, id)
  /\ ~findById(tasks, id).completed
  /\ \E root \in {findRootProject(tasks, projects, id, {})} :
       root.id = NULL \/ root.status = InProgress

prioritizedDisplayOrder == SelectSeq(unique(prioritizedTaskIds), listShows)

tasksForPrioritization == SelectSeq(idsOf(tasks), listShows)

\* sortedTasks, as ids: the prioritized tasks in list order, then the others.
sortedTasks ==
  LET uniqueIds == unique(prioritizedTaskIds)
  IN SelectSeq(uniqueIds, LAMBDA id : includes(tasksForPrioritization, id))
       \o SelectSeq(tasksForPrioritization, LAMBDA id : ~includes(uniqueIds, id))

\* priorityIndex > -1 ? priorityIndex + 1 : undefined, with NULL for undefined.
priorityBadge(order, id) ==
  IF ~includes(order, id) THEN NULL
  ELSE CHOOSE i \in 1..Len(order) : order[i] = id /\ \A j \in 1..(i - 1) : order[j] # id

\* -------------------------------------------------- dragging in the list
\* Math.max and Math.min.
mathMax(x, y) == IF x >= y THEN x ELSE y

mathMin(x, y) == IF x <= y THEN x ELSE y

\* A reorderWithInsert that always inserts at the end.
reorderWithInsert_atEnd(order, dragId, insertIndex) ==
  SelectSeq(order, LAMBDA id : id # dragId) \o <<dragId>>

\* filtered.splice(clamped, 0, dragId); insertIndex counts from 0.
reorderWithInsert(order, dragId, insertIndex) ==
  LET filtered == SelectSeq(order, LAMBDA id : id # dragId)
      clamped == mathMax(0, mathMin(insertIndex, Len(filtered)))
  IN SubSeq(filtered, 1, clamped) \o <<dragId>> \o SubSeq(filtered, clamped + 1, Len(filtered))

\* startDrag(taskId, pointerId), called by handlePointerDown on a shown task.
startDrag(taskId) ==
  /\ dragState' = [id |-> taskId, order |-> sortedTasks]
  /\ Issue(<<>>)
  /\ last' = Op("startDrag", taskId, NULL)
  /\ UNCHANGED <<projects, tasks, prioritizedTaskIds>>

\* handlePointerMove with a drag in progress: insertIndex is the index the
\* pointer's height gives among the other tasks.
handlePointerMove(insertIndex) ==
  /\ dragState.id # NULL
  /\ dragState' = [dragState EXCEPT !.order = reorderWithInsert(@, dragState.id, insertIndex)]
  /\ Issue(<<>>)
  /\ last' = [Op("handlePointerMove", dragState.id, insertIndex) EXCEPT !.ids = dragState.order]
  /\ UNCHANGED <<projects, tasks, prioritizedTaskIds>>

\* finishDrag(commit), called by handlePointerUp (true) and handlePointerCancel (false).
finishDrag(commit) ==
  /\ IF commit /\ dragState.id # NULL
     THEN setPrioritizedTasks(dragState.order)
     ELSE /\ Issue(<<>>)
          /\ last' = Op("finishDrag", NULL, NULL)
          /\ UNCHANGED <<projects, tasks, prioritizedTaskIds>>
  /\ dragState' = NoDrag

\* ---------------------------------------------------------------- snapshots
\* tasksRef.current.filter(t => t.projectId === p.id): the cached list a
\* listener gives project p.
withCache(p, allTasks) ==
  [id |-> p.id, status |-> p.status, isCollapsed |-> p.isCollapsed,
   position |-> p.position, tasks |-> directTaskIdsOf(allTasks, p.id)]

\* data.field ?? fallback, for a field the document may lack.
orElse(data, field, fallback) == IF field \in DOMAIN data THEN data[field] ELSE fallback

\* The Project the projects listener builds from a document.
projectFromDoc(data) ==
  [id |-> data.id,
   status |-> orElse(data, "status", InProgress),
   position |-> orElse(data, "position", [x |-> DefaultProjectX, y |-> DefaultProjectY]),
   isCollapsed |-> orElse(data, "isCollapsed", FALSE)]

\* The fallback of each field the tasks listener reads; undefined is NULL.
taskFallback ==
  [completed |-> FALSE, completionDate |-> NULL, position |-> [x |-> 0, y |-> 0],
   projectId |-> NULL, parentTaskId |-> NULL]

\* The Task the tasks listener builds from a document.
taskFromDoc(data) ==
  [k \in DOMAIN data \cup DOMAIN taskFallback |-> orElse(data, k, taskFallback[k])]

projectsLoaded ==
  [i \in 1..Len(remoteProjects) |-> withCache(projectFromDoc(remoteProjects[i]), tasks)]

tasksLoaded == [i \in 1..Len(remoteTasks) |-> taskFromDoc(remoteTasks[i])]

\* A listener of collection coll runs: some set of listeners is attached, and
\* on an instant network the documents differ from what the store holds,
\* otherwise the collection has changed since a listener last ran.
Due(coll, differs) ==
  /\ subscriptions # <<>>
  /\ IF network = "instant" THEN differs ELSE coll \in pendingSnapshots

Delivered(coll) ==
  /\ pendingSnapshots' = pendingSnapshots \ {coll}
  /\ UNCHANGED <<remoteTasks, remoteProjects, remoteMemos, remotePrio,
                 inflight, settled, rejected, unhandled>>

projectsSnapshot ==
  /\ Due("projects", projects # projectsLoaded)
  /\ projects' = projectsLoaded
  /\ last' = Op("projectsSnapshot", NULL, NULL)
  /\ Delivered("projects")
  /\ UNCHANGED <<tasks, prioritizedTaskIds>>

recache_keep(prev, loaded) == prev

recache(prev, loaded) == [i \in 1..Len(prev) |-> withCache(prev[i], loaded)]

tasksSnapshot ==
  /\ Due("tasks", tasks # tasksLoaded \/ projects # recache(projects, tasksLoaded))
  /\ tasks' = tasksLoaded
  /\ projects' = recache(projects, tasksLoaded)
  /\ last' = Op("tasksSnapshot", NULL, NULL)
  /\ Delivered("tasks")
  /\ UNCHANGED prioritizedTaskIds

stateSnapshot ==
  /\ Due("state", prioritizedTaskIds # unique(remotePrio))
  /\ prioritizedTaskIds' = unique(remotePrio)
  /\ last' = Op("stateSnapshot", NULL, NULL)
  /\ Delivered("state")
  /\ UNCHANGED <<projects, tasks>>

memosSnapshot ==
  /\ Due("memos", memos # remoteMemos)
  /\ memos' = remoteMemos
  /\ last' = Op("memosSnapshot", NULL, NULL)
  /\ Delivered("memos")
  /\ UNCHANGED <<projects, tasks, prioritizedTaskIds, uid, memoDebouncedTimers, timers, memoLog>>

\* ------------------------------------------------- remote calls settling
\* The listeners that have something new to deliver after the documents went
\* from R to S.
changedBy_none(R, S) == {}

changedBy(R, S) ==
  {c \in {"tasks", "projects", "memos"} : R[c] # S[c]}
    \cup (IF R.prio # S.prio THEN {"state"} ELSE {})

\* A call in flight is committed by the server; the store is not told.
writeCommitted(w) ==
  /\ w \in inflight
  /\ canCommit(Remote, w)
  /\ \E R \in {commitOps(Remote, w.ops)} :
       /\ remoteTasks' = R.tasks
       /\ remoteProjects' = R.projects
       /\ remoteMemos' = R.memos
       /\ remotePrio' = R.prio
       /\ pendingSnapshots' = pendingSnapshots \cup changedBy(Remote, R)
  /\ inflight' = inflight \ {w}
  /\ settled' = Append(settled, w.seq)
  /\ last' = Op("writeCommitted", NULL, NULL)
  /\ UNCHANGED <<projects, tasks, prioritizedTaskIds, rejected, unhandled>>

\* The promise of a call in flight is rejected: by .catch(() => {}) where the
\* call site has one, by nothing where it has not.
writeRejected(w) ==
  /\ w \in inflight
  /\ inflight' = inflight \ {w}
  /\ settled' = Append(settled, w.seq)
  /\ rejected' = TRUE
  /\ unhandled' = (unhandled \/ ~w.caught)
  /\ last' = Op("writeRejected", NULL, NULL)
  /\ UNCHANGED <<projects, tasks, prioritizedTaskIds, remoteTasks, remoteProjects,
                 remoteMemos, remotePrio, pendingSnapshots>>

\* -------------------------------------------------------------- the program
\* Every handler and listener callback runs at a later clock reading than the
\* one before it; the reading is now'.  A handler that never returns
\* (unlinkTaskFromParent on a cycle) ends the run.
ClockTo(limit) ==
  /\ last.op # "diverged"
  /\ now < limit
  /\ now' = now + 1
  /\ UNCHANGED <<bfsVars, network, viewVars>>

\* The handlers of projects and tasks leave the notes and the session alone.
TickTo(limit) ==
  /\ ClockTo(limit)
  /\ UNCHANGED memoVars

\* The ids of the projects and of the i-th task of a store that has loaded its
\* documents.
GivenProjectIds == {1, 2}

givenTaskId(i) == Cardinality(GivenProjectIds) + i

\* On a slow network the session is short: the remote calls it leaves in
\* flight settle in every order.
Slow == network = "slow"

\* The reading at which a session on a slow network starts: every id the
\* store has loaded is an earlier reading.
SlowStart == Cardinality(GivenProjectIds) + MaxTasks

SessionEnd == IF Slow THEN SlowStart + MaxSyncClock ELSE MaxClock

Tick == TickTo(SessionEnd)

TaskIds == toSet(idsOf(tasks))
ProjectIds == toSet(idsOf(projects))

\* The id sequences handed to setPrioritizedTasks: up to two known ids.
PrioInputs ==
  {<<>>} \cup {<<a>> : a \in TaskIds} \cup {<<a, b>> : a \in TaskIds, b \in TaskIds}

\* The Partial<Task> values handed to updateTask: the two completion toggles of
\* the task view, and a change of the task's project.
CompletionPayloads ==
  {[completed |-> TRUE, completionDate |-> now + 1], [completed |-> FALSE, completionDate |-> NULL]}

LinkPayloads == {[projectId |-> p] : p \in ProjectIds}

TaskPayloads == CompletionPayloads \cup LinkPayloads

AddProject == Tick /\ Len(projects) < MaxProjects /\ addProject
AddTask ==
  \E projectId \in {NULL} \cup ProjectIds, position \in TaskPositions :
    Tick /\ Len(tasks) < MaxTasks /\ addTask(projectId, position)
LinkTaskToProject ==
  \E taskId \in TaskIds, projectId \in ProjectIds, eager \in BOOLEAN :
    Tick /\ linkTaskToProject(taskId, projectId, eager)
LinkTaskToTask ==
  \E childTaskId \in TaskIds, parentTaskId \in TaskIds :
    Tick /\ childTaskId # parentTaskId /\ linkTaskToTask(childTaskId, parentTaskId)
UnlinkTask ==
  \E projectId \in ProjectIds, taskId \in TaskIds, eager \in BOOLEAN :
    Tick /\ unlinkTask(projectId, taskId, eager)
UnlinkTaskFromParent == \E childTaskId \in TaskIds : Tick /\ unlinkTaskFromParent(childTaskId)
UpdateTask ==
  \E taskId \in TaskIds, taskData \in TaskPayloads : Tick /\ updateTask(taskId, taskData)
UpdateTaskPosition ==
  \E taskId \in TaskIds, position \in TaskPositions :
    Tick /\ findById(tasks, taskId).position # position /\ updateTaskPosition(taskId, position)
DeleteTask == \E taskId \in TaskIds : Tick /\ deleteTask(taskId)
DeleteProject == \E projectId \in ProjectIds : Tick /\ deleteProject(projectId)
FinishProject == \E projectId \in ProjectIds : Tick /\ finishProject(projectId)
ReactivateProject == \E projectId \in ProjectIds : Tick /\ reactivateProject(projectId)
ToggleProjectCollapse == \E projectId \in ProjectIds : Tick /\ toggleProjectCollapse(projectId)
SetPrioritizedTasks == \E ids \in PrioInputs : Tick /\ setPrioritizedTasks(ids)
MoveProjectGroup ==
  \E projectId \in ProjectIds, delta \in Deltas : Tick /\ moveProjectGroup(projectId, delta)
MoveTaskSubtree ==
  \E rootTaskId \in TaskIds, delta \in Deltas : Tick /\ moveTaskSubtree(rootTaskId, delta)
ProjectsSnapshot == Tick /\ projectsSnapshot
TasksSnapshot == Tick /\ tasksSnapshot
StateSnapshot == Tick /\ stateSnapshot

Next ==
  \/ AddProject
  \/ AddTask
  \/ LinkTaskToProject
  \/ LinkTaskToTask
  \/ UnlinkTask
  \/ UnlinkTaskFromParent
  \/ UpdateTask
  \/ UpdateTaskPosition
  \/ DeleteTask
  \/ DeleteProject
  \/ FinishProject
  \/ ReactivateProject
  \/ ToggleProjectCollapse
  \/ SetPrioritizedTasks
  \/ MoveProjectGroup
  \/ MoveTaskSubtree
  \/ ProjectsSnapshot
  \/ TasksSnapshot
  \/ StateSnapshot

Spec == Init /\ [][Next]_vars

\* A project document as the projects listener delivers it.
givenProject(id) ==
  [id |-> id, status |-> InProgress, isCollapsed |-> FALSE,
   position |-> [x |-> DefaultProjectX, y |-> DefaultProjectY]]

\* A planning session on a store that has loaded one project: the user adds
\* tasks, links them, completes and reopens them, orders the priority list, and
\* finishes and reactivates the project, through the controls the views offer.
\* Longer than the sessions of Spec, over the operations that write the
\* priority list or the links it is computed from.
PlanTick == TickTo(MaxPlanClock)

PlanAddTask ==
  \E projectId \in {NULL} \cup ProjectIds, position \in TaskPositions :
    PlanTick /\ Len(tasks) < MaxTasks /\ addTask(projectId, position)
\* TaskNode.handleClick starts a link from a task without project and parent.
LinkSources ==
  {id \in TaskIds : /\ findById(tasks, id).projectId = NULL
                    /\ findById(tasks, id).parentTaskId = NULL}

PlanLinkTaskToProject ==
  \E taskId \in LinkSources, projectId \in ProjectIds, eager \in BOOLEAN :
    PlanTick /\ linkTaskToProject(taskId, projectId, eager)
PlanLinkTaskToTask ==
  \E childTaskId \in LinkSources, parentTaskId \in TaskIds :
    PlanTick /\ childTaskId # parentTaskId /\ linkTaskToTask(childTaskId, parentTaskId)
\* The task view offers "complete" on an open task and "reopen" on a completed one.
PlanUpdateTask ==
  \E taskId \in TaskIds, taskData \in CompletionPayloads :
    /\ PlanTick
    /\ taskData.completed # findById(tasks, taskId).completed
    /\ updateTask(taskId, taskData)
\* The planning view hands over a reordering of the ids it displays, none twice.
PlanPrioInputs == {ids \in PrioInputs : ids = unique(ids)}

PlanSetPrioritizedTasks == \E ids \in PlanPrioInputs : PlanTick /\ setPrioritizedTasks(ids)
\* The project view offers "reactivate" on a completed project and "finish" on
\* any other.
PlanFinishProject ==
  \E projectId \in ProjectIds :
    PlanTick /\ findById(projects, projectId).status # Completed /\ finishProject(projectId)
PlanReactivateProject ==
  \E projectId \in ProjectIds :
    PlanTick /\ findById(projects, projectId).status = Completed /\ reactivateProject(projectId)

NextPlan ==
  \/ PlanAddTask
  \/ PlanLinkTaskToProject
  \/ PlanLinkTaskToTask
  \/ PlanUpdateTask
  \/ PlanSetPrioritizedTasks
  \/ PlanFinishProject
  \/ PlanReactivateProject

InitPlan ==
  /\ tasks = <<>>
  /\ remoteTasks = <<>>
  /\ remoteProjects = <<givenProject(1)>>
  /\ projects = <<withCache(givenProject(1), tasks)>>
  /\ prioritizedTaskIds = <<>>
  /\ remotePrio = <<>>
  /\ now = Len(projects)
  /\ last = [op |-> "init", a |-> NULL, b |-> NULL, delta |-> [dx |-> 0, dy |-> 0],
             prio |-> <<>>, tasks |-> <<>>, projects |-> <<>>,
             afterFinish |-> FALSE, finishPrio |-> <<>>, ids |-> <<>>,
             rowDepthById |-> <<>>, totalRows |-> 0, data |-> <<>>]
  /\ BfsIdle
  /\ SignedIn
  /\ Instant

SpecPlan == InitPlan /\ [][NextPlan]_vars

\* ------------------------------------------------- setPrioritizedTasks alone
\* setPrioritizedTasks applied once to every id array of up to MaxIdsLen of the
\* ids 1..MaxTasks, from every priority list an earlier call can have stored.
IdArrays == UNION {[1..n -> 1..MaxTasks] : n \in 0..MaxIdsLen}

InitPrio ==
  /\ projects = <<>>
  /\ tasks = <<>>
  /\ remoteProjects = <<>>
  /\ remoteTasks = <<>>
  /\ now = 0
  /\ \E s \in IdArrays : prioritizedTaskIds = unique(s) /\ remotePrio = unique(s)
  /\ last = [op |-> "init", a |-> NULL, b |-> NULL, delta |-> [dx |-> 0, dy |-> 0],
             prio |-> <<>>, tasks |-> <<>>, projects |-> <<>>,
             afterFinish |-> FALSE, finishPrio |-> <<>>, ids |-> <<>>,
             rowDepthById |-> <<>>, totalRows |-> 0, data |-> <<>>]
  /\ BfsIdle
  /\ SignedIn
  /\ Instant

PrioSet == \E ids \in IdArrays : last.op = "init" /\ Tick /\ setPrioritizedTasks(ids)

NextPrio == PrioSet

SpecPrio == InitPrio /\ [][NextPrio]_vars

\* ----------------------------------------------- one call on a loaded store
\* The store after its documents have loaded: two projects, up to MaxTasks
\* tasks, the cached lists as the listeners build them, the remote documents
\* equal to the local ones, every task in the priority list.
givenTask(id, parentTaskId, projectId, position) ==
  [id |-> id, completed |-> FALSE, completionDate |-> NULL, position |-> position,
   projectId |-> projectId, parentTaskId |-> parentTaskId]

LoadedDocs ==
  /\ remoteTasks = tasks
  /\ remoteProjects = [i \in 1..Cardinality(GivenProjectIds) |-> givenProject(i)]
  /\ projects = [i \in 1..Len(remoteProjects) |-> withCache(remoteProjects[i], tasks)]
  /\ prioritizedTaskIds = idsOf(tasks)
  /\ remotePrio = prioritizedTaskIds
  /\ last = [op |-> "init", a |-> NULL, b |-> NULL, delta |-> [dx |-> 0, dy |-> 0],
             prio |-> <<>>, tasks |-> <<>>, projects |-> <<>>,
             afterFinish |-> FALSE, finishPrio |-> <<>>, ids |-> <<>>,
             rowDepthById |-> <<>>, totalRows |-> 0, data |-> <<>>]
  /\ BfsIdle

LoadedStore ==
  /\ LoadedDocs
  /\ now = 0

Loaded ==
  /\ LoadedStore
  /\ SignedIn
  /\ Instant

\* parentTaskId: null, a task of the collection (the task itself and cycles
\* included) or the id of a task that has been deleted.
parentChoices(n) == {NULL} \cup {givenTaskId(i) : i \in 1..(n + 1)}

\* Every collection of up to MaxTasks tasks with any parentTaskId and any
\* projectId, then one call of unlinkTaskFromParent.
InitUnlink ==
  /\ \E n \in 1..MaxTasks :
       \E parents \in [1..n -> parentChoices(n)], owners \in [1..n -> {NULL} \cup GivenProjectIds] :
         tasks = [i \in 1..n |-> givenTask(givenTaskId(i), parents[i], owners[i], [x |-> 0, y |-> 0])]
  /\ Loaded

UnlinkOnce ==
  \E childTaskId \in TaskIds : last.op = "init" /\ Tick /\ unlinkTaskFromParent(childTaskId)

NextUnlink == UnlinkOnce

SpecUnlink == InitUnlink /\ [][NextUnlink]_vars

\* Every collection of up to MaxTasks tasks with any parentTaskId, the tasks
\* without a parent linked to the first project, each at one of two positions;
\* then one call of moveTaskSubtree with a known or unknown root and a delta
\* that is zero, horizontal or diagonal.
GivenPositions == {[x |-> 0, y |-> 0], [x |-> 100, y |-> 40]}

MoveDeltas == Deltas \cup {[dx |-> 0, dy |-> 0], [dx |-> 10, dy |-> 0]}

InitMove ==
  /\ \E n \in 1..MaxTasks :
       \E parents \in [1..n -> parentChoices(n)], positions \in [1..n -> GivenPositions] :
         tasks = [i \in 1..n |->
                   givenTask(givenTaskId(i), parents[i],
                             IF parents[i] = NULL THEN 1 ELSE NULL, positions[i])]
  /\ Loaded

MoveOnce ==
  \E rootTaskId \in TaskIds \cup {givenTaskId(Len(tasks) + 1)}, delta \in MoveDeltas :
    last.op = "init" /\ Tick /\ moveTaskSubtree(rootTaskId, delta)

NextMove == MoveOnce

SpecMove == InitMove /\ [][NextMove]_vars

\* Every forest of up to MaxArrangeTasks titled tasks: a task is a root of the
\* first project or the child of a task created before it, and the task
\* created last may instead be a root of the second project. Then one call of
\* autoArrangeProjectTasks.
titled(t, title) ==
  [k \in DOMAIN t \cup {"title"} |-> IF k = "title" THEN title ELSE t[k]]

\* links[i] = -p: task i is a root of project p; otherwise its parent's id.
RECURSIVE firstProjectLinks(_)
firstProjectLinks(n) ==
  IF n = 0 THEN {<<>>}
  ELSE {Append(links, c) : links \in firstProjectLinks(n - 1),
                           c \in {-1} \cup {givenTaskId(j) : j \in 1..(n - 1)}}

forestLinks(n) ==
  {Append(links, c) : links \in firstProjectLinks(n - 1),
                      c \in {-p : p \in GivenProjectIds} \cup {givenTaskId(j) : j \in 1..(n - 1)}}

InitArrange ==
  /\ \E n \in 1..MaxArrangeTasks :
       \E links \in forestLinks(n), titles \in [1..n -> Titles] :
         tasks = [i \in 1..n |->
                   titled(givenTask(givenTaskId(i),
                                    IF links[i] < 0 THEN NULL ELSE links[i],
                                    IF links[i] < 0 THEN -links[i] ELSE NULL,
                                    [x |-> 0, y |-> 0]),
                          titles[i])]
  /\ Loaded

ArrangeOnce ==
  \E projectId \in ProjectIds : last.op = "init" /\ Tick /\ autoArrangeProjectTasks(projectId)

NextArrange == ArrangeOnce

SpecArrange == InitArrange /\ [][NextArrange]_vars

\* Every collection of up to MaxTasks equally titled tasks with any
\* parentTaskId (cycles and deleted parents included) and any projectId, then
\* one call of autoArrangeProjectTasks on a known or an unknown project.
InitArrangeAny ==
  /\ \E n \in 1..MaxTasks :
       \E parents \in [1..n -> parentChoices(n)], owners \in [1..n -> {NULL} \cup GivenProjectIds] :
         tasks = [i \in 1..n |->
                   titled(givenTask(givenTaskId(i), parents[i], owners[i], [x |-> 0, y |-> 0]),
                          "a")]
  /\ Loaded

ArrangeAnyOnce ==
  \E projectId \in ProjectIds \cup {Cardinality(GivenProjectIds) + 1} :
    last.op = "init" /\ Tick /\ autoArrangeProjectTasks(projectId)

NextArrangeAny == ArrangeAnyOnce

SpecArrangeAny == InitArrangeAny /\ [][NextArrangeAny]_vars

\* Every forest of up to MaxShuffleTasks titled tasks, kept in the flat
\* collection in every order, then one call of autoArrangeProjectTasks.
MaxShuffleTasks == 3

shuffles(n) == {f \in [1..n -> 1..n] : \A i, j \in 1..n : f[i] = f[j] => i = j}

InitShuffle ==
  /\ \E n \in 1..MaxShuffleTasks :
       \E links \in forestLinks(n), titles \in [1..n -> Titles], f \in shuffles(n) :
         tasks = [i \in 1..n |->
                   titled(givenTask(givenTaskId(f[i]),
                                    IF links[f[i]] < 0 THEN NULL ELSE links[f[i]],
                                    IF links[f[i]] < 0 THEN -links[f[i]] ELSE NULL,
                                    [x |-> 0, y |-> 0]),
                          titles[f[i]])]
  /\ Loaded

ArrangeShuffled ==
  \E projectId \in ProjectIds : last.op = "init" /\ Tick /\ autoArrangeProjectTasks(projectId)

NextShuffle == ArrangeShuffled

SpecShuffle == InitShuffle /\ [][NextShuffle]_vars

\* The first snapshots after sign-in, from documents that lack any of the
\* fields the listeners give a fallback: one project, a root task of it at a
\* position of its own and a child of that task.
without(data, fields) == [k \in DOMAIN data \ fields |-> data[k]]

ProjectFallbacks == {"status", "position", "isCollapsed"}

TaskFallbacks == {"completed", "completionDate", "position", "projectId", "parentTaskId"}

InitLoad ==
  /\ projects = <<>>
  /\ tasks = <<>>
  /\ prioritizedTaskIds = <<>>
  /\ remotePrio = <<>>
  /\ now = 0
  /\ \E missing \in SUBSET ProjectFallbacks :
       remoteProjects = <<without(givenProject(1), missing)>>
  /\ \E missing \in SUBSET TaskFallbacks :
       remoteTasks =
         <<without(givenTask(givenTaskId(1), NULL, 1, [x |-> 100, y |-> 40]), missing),
           without(givenTask(givenTaskId(2), givenTaskId(1), NULL, [x |-> 0, y |-> 0]), missing)>>
  /\ last = [op |-> "init", a |-> NULL, b |-> NULL, delta |-> [dx |-> 0, dy |-> 0],
             prio |-> <<>>, tasks |-> <<>>, projects |-> <<>>,
             afterFinish |-> FALSE, finishPrio |-> <<>>, ids |-> <<>>,
             rowDepthById |-> <<>>, totalRows |-> 0, data |-> <<>>]
  /\ BfsIdle
  /\ SignedIn
  /\ Instant

NextLoad ==
  \/ ProjectsSnapshot
  \/ TasksSnapshot

SpecLoad == InitLoad /\ [][NextLoad]_vars

\* ------------------------------------------------------- editing the notes
\* A session on the notes: the store has loaded the user's two notes, the user
\* drags and resizes them, adds and deletes notes, or does nothing for a tenth
\* of a second.  A timer runs at the reading it is due, before anything else
\* that happens at that reading or later.
MemoIds == toSet(idsOf(memos))

MemoPayloads == {[position |-> [x |-> 10, y |-> 10]], [width |-> 300]}

NewMemos == {[position |-> [x |-> 0, y |-> 0], width |-> 208]}

NoTimerDue == \A t \in timers : t.due > now + 1

MemoTick ==
  /\ ClockTo(IF Slow THEN SlowStart + MaxSyncClock ELSE MaxMemoClock)
  /\ NoTimerDue

MaxMemos == 3

AddMemo == \E memoData \in NewMemos : MemoTick /\ Len(memos) < MaxMemos /\ addMemo(memoData)
UpdateMemo ==
  \E memoId \in MemoIds :
    \/ \E memoData \in MemoPayloads : MemoTick /\ updateMemo(memoId, memoData)
    \/ MemoTick /\ updateMemo(memoId, <<>>)
DeleteMemo == \E memoId \in MemoIds : MemoTick /\ deleteMemo(memoId)
MemoTimer == \E t \in timers : ClockTo(MaxMemoClock) /\ t.due = now + 1 /\ memoTimer(t)
MemosSnapshot == MemoTick /\ memosSnapshot
Wait ==
  /\ MemoTick
  /\ last' = Op("wait", NULL, NULL)
  /\ UNCHANGED <<projects, tasks, prioritizedTaskIds, remoteTasks, remoteProjects, remotePrio,
                 memoVars, remoteMemos, inflight, pendingSnapshots, settled, rejected, unhandled>>

NextMemo ==
  \/ AddMemo
  \/ UpdateMemo
  \/ DeleteMemo
  \/ MemoTimer
  \/ MemosSnapshot
  \/ Wait

InitMemo ==
  /\ StoreInit
  /\ BfsIdle
  /\ uid = 1
  /\ memos = initialMemos
  /\ remoteMemos = initialMemos
  /\ memoDebouncedTimers = {}
  /\ timers = {}
  /\ memoLog = <<>>
  /\ inflight = {}
  /\ pendingSnapshots = {}
  /\ rejected = FALSE
  /\ unhandled = FALSE
  /\ Attached
  /\ settled = <<>>
  /\ Instant

SpecMemo == InitMemo /\ [][NextMemo]_vars

\* The same session until the component unmounts: afterwards no handler of
\* the store is called, time passes, and a timer that is still pending runs.
Mounted == \A i \in 1..Len(memoLog) : memoLog[i].kind # "unmount"

EditMemo ==
  \E memoId \in MemoIds :
    \/ \E memoData \in MemoPayloads : Mounted /\ MemoTick /\ updateMemo(memoId, memoData)
    \/ Mounted /\ MemoTick /\ updateMemo(memoId, <<>>)
RemoveMemo == \E memoId \in MemoIds : Mounted /\ MemoTick /\ deleteMemo(memoId)
SignOutMemo == Mounted /\ MemoTick /\ signOut
Unmount == Mounted /\ MemoTick /\ unmount

NextUnmount ==
  \/ EditMemo
  \/ RemoveMemo
  \/ SignOutMemo
  \/ MemoTimer
  \/ Unmount
  \/ Wait

SpecUnmount == InitMemo /\ [][NextUnmount]_vars

\* Adding tasks and projects to the empty store, where a call may also be
\* made at the clock reading of the call before it: Date.now() counts
\* milliseconds and two calls of one handler run can read the same one.
SameReading ==
  /\ last.op \notin {"init", "diverged"}
  /\ now' = now
  /\ UNCHANGED <<bfsVars, network, memoVars, viewVars>>

AddTaskAtOnce ==
  \E projectId \in {NULL} \cup ProjectIds, position \in TaskPositions :
    SameReading /\ Len(tasks) < MaxTasks /\ addTask(projectId, position)
AddProjectAtOnce == SameReading /\ Len(projects) < MaxProjects /\ addProject

NextIds ==
  \/ AddTask
  \/ AddProject
  \/ AddTaskAtOnce
  \/ AddProjectAtOnce

SpecIds == Init /\ [][NextIds]_vars

\* Dragging in the priority list of a loaded store of up to MaxTasks open
\* tasks, whose priority list names any of them in any order: the pointer goes
\* down on a shown task, moves, and goes up or is cancelled.  The index a move
\* computes lies between 0 and the number of other tasks; the indexes one
\* below and two above are drawn as well.  No handler here reads the clock.
InitDrag ==
  /\ \E n \in 1..MaxTasks :
       tasks = [i \in 1..n |-> givenTask(givenTaskId(i), NULL, NULL, [x |-> 0, y |-> 0])]
  /\ remoteTasks = tasks
  /\ projects = <<>>
  /\ remoteProjects = <<>>
  /\ \E s \in IdArrays :
       /\ prioritizedTaskIds = unique([i \in 1..Len(s) |-> givenTaskId(s[i])])
       /\ remotePrio = prioritizedTaskIds
  /\ now = 0
  /\ last = [op |-> "init", a |-> NULL, b |-> NULL, delta |-> [dx |-> 0, dy |-> 0],
             prio |-> <<>>, tasks |-> <<>>, projects |-> <<>>,
             afterFinish |-> FALSE, finishPrio |-> <<>>, ids |-> <<>>,
             rowDepthById |-> <<>>, totalRows |-> 0, data |-> <<>>]
  /\ BfsIdle
  /\ SignedIn
  /\ Instant

PointerEvent ==
  /\ last.op # "diverged"
  /\ UNCHANGED <<now, bfsVars, network, memoVars, subscriptions>>

InsertIndexes == -1..(MaxTasks + 1)

StartDrag ==
  \E taskId \in toSet(sortedTasks) : PointerEvent /\ dragState.id = NULL /\ startDrag(taskId)
HandlePointerMove == \E insertIndex \in InsertIndexes : PointerEvent /\ handlePointerMove(insertIndex)
FinishDrag == \E commit \in BOOLEAN : PointerEvent /\ dragState.id # NULL /\ finishDrag(commit)

NextDrag ==
  \/ StartDrag
  \/ HandlePointerMove
  \/ FinishDrag

SpecDrag == InitDrag /\ [][NextDrag]_vars

\* Signing out and in again on a loaded store of up to MaxTasks tasks: the
\* listeners deliver whenever the documents differ from what the store holds.
InitAuth ==
  /\ \E n \in 1..MaxTasks :
       tasks = [i \in 1..n |-> givenTask(givenTaskId(i), NULL, 1, [x |-> 0, y |-> 0])]
  /\ Loaded

AuthEvent ==
  /\ last.op # "diverged"
  /\ now < MaxClock
  /\ now' = now + 1
  /\ UNCHANGED <<bfsVars, network, dragState>>

SignOutAuth == ClockTo(MaxClock) /\ signOut
SignIn == AuthEvent /\ uid = NULL /\ signIn(1)
ListenersRevoked == AuthEvent /\ listenersRevoked

NextAuth ==
  \/ SignOutAuth
  \/ SignIn
  \/ ListenersRevoked
  \/ ProjectsSnapshot
  \/ TasksSnapshot
  \/ StateSnapshot
  \/ MemosSnapshot

SpecAuth == InitAuth /\ [][NextAuth]_vars

\* Two calls in one run of a handler, on the loaded stores of InitAuth:
\* the first call finds the state of the last render in its closure, the
\* second call, made before the component renders again, finds the same
\* closure, which is the state the first call started from.
FirstCall == last.op = "init"

SecondCall == last.op # "init" /\ now = 1

AddTaskFirst ==
  \E projectId \in {NULL} \cup ProjectIds, position \in TaskPositions :
    FirstCall /\ Tick /\ addTask(projectId, position)
UpdateTaskPositionFirst ==
  \E taskId \in TaskIds, position \in GivenPositions :
    FirstCall /\ Tick /\ updateTaskPosition(taskId, position)
MoveProjectGroupFirst ==
  \E projectId \in ProjectIds, delta \in Deltas :
    FirstCall /\ Tick /\ moveProjectGroup(projectId, delta)
FinishProjectFirst == \E projectId \in ProjectIds : FirstCall /\ Tick /\ finishProject(projectId)
AddTaskSecond ==
  \E projectId \in {NULL} \cup ProjectIds, position \in TaskPositions :
    SecondCall /\ Tick /\ addTaskFrom(last.prio, projectId, position)
MoveProjectGroupSecond ==
  \E projectId \in ProjectIds, delta \in Deltas :
    SecondCall /\ Tick /\ moveProjectGroupFrom(last.projects, last.tasks, projectId, delta)

NextBatch ==
  \/ AddTaskFirst
  \/ UpdateTaskPositionFirst
  \/ MoveProjectGroupFirst
  \/ FinishProjectFirst
  \/ AddTaskSecond
  \/ MoveProjectGroupSecond

SpecBatch == InitAuth /\ [][NextBatch]_vars

\* ------------------------------------------------------- a slow network
\* A short session on a loaded store whose remote calls stay in flight: the
\* server commits them in any order, refuses an update of a document that does
\* not exist, and every listener whose collection a commit changed delivers a
\* snapshot some time later.  Settling and delivering read no clock.
Settle ==
  /\ last.op # "diverged"
  /\ UNCHANGED <<now, bfsVars, network, viewVars>>

WriteCommitted == \E w \in inflight : Settle /\ writeCommitted(w) /\ UNCHANGED memoVars
WriteRefused ==
  \E w \in inflight : Settle /\ ~canCommit(Remote, w) /\ writeRejected(w) /\ UNCHANGED memoVars
ProjectsDelivered == Settle /\ projectsSnapshot /\ UNCHANGED memoVars
TasksDelivered == Settle /\ tasksSnapshot /\ UNCHANGED memoVars
StateDelivered == Settle /\ stateSnapshot /\ UNCHANGED memoVars
MemosDelivered == Settle /\ memosSnapshot

\* The calls of the canvas: dragging a task or a project, completing a task,
\* linking two tasks, deleting a task or a project, finishing a project.
ToggleCompleted ==
  \E taskId \in TaskIds, taskData \in CompletionPayloads : Tick /\ updateTask(taskId, taskData)

StoreCall ==
  \/ UpdateTaskPosition
  \/ MoveProjectGroup
  \/ ToggleCompleted
  \/ LinkTaskToTask
  \/ DeleteTask
  \/ DeleteProject
  \/ FinishProject

NextSync ==
  \/ StoreCall
  \/ WriteCommitted
  \/ WriteRefused
  \/ ProjectsDelivered
  \/ TasksDelivered

\* Two projects, a root task of the first one and its child task; the two notes.
LoadedSlow ==
  /\ LoadedDocs
  /\ now = SlowStart
  /\ uid = 1
  /\ memos = initialMemos
  /\ remoteMemos = initialMemos
  /\ memoDebouncedTimers = {}
  /\ timers = {}
  /\ memoLog = <<>>
  /\ inflight = {}
  /\ pendingSnapshots = {}
  /\ rejected = FALSE
  /\ unhandled = FALSE
  /\ Attached
  /\ settled = <<>>
  /\ Slow

InitSync ==
  /\ tasks = <<givenTask(givenTaskId(1), NULL, 1, [x |-> 0, y |-> 0]),
               givenTask(givenTaskId(2), givenTaskId(1), NULL, [x |-> 100, y |-> 40])>>
  /\ LoadedSlow

SpecSync == InitSync /\ [][NextSync]_vars

\* The same store and network with a call on each of the four collections the
\* listeners watch: deleting a task, collapsing a project, ordering the
\* priority list, deleting a note.
NextSnap ==
  \/ DeleteTask
  \/ ToggleProjectCollapse
  \/ SetPrioritizedTasks
  \/ DeleteMemo
  \/ WriteCommitted
  \/ ProjectsDelivered
  \/ TasksDelivered
  \/ StateDelivered
  \/ MemosDelivered

SpecSnap == InitSync /\ [][NextSnap]_vars

\* ---------------------------------------------------- remote calls failing
\* A short session on a slow network where any remote call may fail: the
\* store has loaded two tasks with attachments, the user drags and deletes
\* tasks, deletes projects and signs out.
withFile(t, fileURL) ==
  [k \in DOMAIN t \cup {"fileURL"} |-> IF k = "fileURL" THEN fileURL ELSE t[k]]

SignOut ==
  /\ ClockTo(SessionEnd)
  /\ signOut

WriteFails == \E w \in inflight : Settle /\ writeRejected(w) /\ UNCHANGED memoVars

NextReject ==
  \/ UpdateTaskPosition
  \/ DeleteTask
  \/ DeleteProject
  \/ SignOut
  \/ WriteCommitted
  \/ WriteFails
  \/ ProjectsDelivered
  \/ TasksDelivered

InitReject ==
  /\ \E first \in {ObjectURL, OtherURL}, second \in {ObjectURL, NoFile} :
       tasks = <<withFile(givenTask(givenTaskId(1), NULL, 1, [x |-> 0, y |-> 0]), first),
                 withFile(givenTask(givenTaskId(2), givenTaskId(1), NULL, [x |-> 100, y |-> 40]),
                          second)>>
  /\ LoadedSlow

SpecReject == InitReject /\ [][NextReject]_vars

\* ------------------------------------------- getAllDescendantTaskIds, stepwise
\* The loop of getAllDescendantTaskIds one iteration at a time, over every task
\* collection of up to MaxTasks tasks whose parentTaskId is null or any id of
\* the collection (cycles and self-links included) and every seed array of up
\* to MaxSeeds of those ids.
bfsTask(id, parentTaskId) == [id |-> id, parentTaskId |-> parentTaskId]

TaskCollections ==
  UNION {{[i \in 1..n |-> bfsTask(i, parents[i])] : parents \in [1..n -> 0..n]} : n \in 0..MaxTasks}

SeedArrays == UNION {[1..n -> 1..MaxTasks] : n \in 0..MaxSeeds}

InitBFS ==
  /\ StoreInit
  /\ SignedIn
  /\ Instant
  /\ bfsAllTasks \in TaskCollections
  /\ bfsStartTaskIds \in SeedArrays
  /\ bfsQueue = bfsStartTaskIds
  /\ bfsVisited = <<>>
  /\ bfsPc = "loop"

\* One pass through the body of while (queue.length > 0), when the id was visited before.
BfsSkip ==
  /\ bfsPc = "loop"
  /\ bfsQueue # <<>>
  /\ includes(bfsVisited, Head(bfsQueue))
  /\ bfsQueue' = Tail(bfsQueue)
  /\ UNCHANGED <<bfsStartTaskIds, bfsAllTasks, bfsVisited, bfsPc, storeVars, memoVars, remoteMemos, syncVars, viewVars>>

\* One pass through the body of while (queue.length > 0), when the id is new.
BfsVisit ==
  /\ bfsPc = "loop"
  /\ bfsQueue # <<>>
  /\ ~includes(bfsVisited, Head(bfsQueue))
  /\ bfsVisited' = Append(bfsVisited, Head(bfsQueue))
  /\ bfsQueue' = pushChildren(Tail(bfsQueue), childrenOf(Head(bfsQueue), bfsAllTasks), bfsVisited')
  /\ UNCHANGED <<bfsStartTaskIds, bfsAllTasks, bfsPc, storeVars, memoVars, remoteMemos, syncVars, viewVars>>

\* The while test fails: return allDescendants.
BfsReturn ==
  /\ bfsPc = "loop"
  /\ bfsQueue = <<>>
  /\ bfsPc' = "done"
  /\ UNCHANGED <<bfsStartTaskIds, bfsAllTasks, bfsQueue, bfsVisited, storeVars, memoVars, remoteMemos, syncVars, viewVars>>

NextBFS == BfsSkip \/ BfsVisit \/ BfsReturn

\* The loop is sequential code: it keeps running until it returns.
SpecBFS == InitBFS /\ [][NextBFS]_vars /\ WF_vars(NextBFS)

\* ================================================================== claims
count(s, x) == Cardinality({i \in 1..Len(s) : s[i] = x})

\* C1: after any sequence of store operations from the empty store, every task
\* of the local task collection has at most one of projectId and parentTaskId
\* non-null.
C1_Exclusive ==
  \A i \in 1..Len(tasks) : tasks[i].projectId = NULL \/ tasks[i].parentTaskId = NULL

\* C2: the parentTaskId relation has no cycle: the walk up from any task ends at
\* a null parent, a missing task or a task with a projectId.
C2_Forest ==
  \A i \in 1..Len(tasks) : ancestorWalk(tasks, tasks[i].id, Len(tasks)) # DIVERGES

\* C3: the priority list holds no id more than once.
C3_NoDuplicates ==
  \A i, j \in 1..Len(prioritizedTaskIds) :
    prioritizedTaskIds[i] = prioritizedTaskIds[j] => i = j

\* C9: after linkTaskToTask(child, parent) on two distinct existing tasks the
\* priority list does not contain parent and contains child exactly once, as its
\* last element.
C9_ChildOnceAtEnd ==
  (last.op = "linkTaskToTask" /\ hasId(last.tasks, last.a) /\ hasId(last.tasks, last.b))
    => /\ ~includes(prioritizedTaskIds, last.b)
       /\ count(prioritizedTaskIds, last.a) = 1
       /\ prioritizedTaskIds[Len(prioritizedTaskIds)] = last.a

\* C10: after linkTaskToTask(child, parent) on two distinct existing tasks the
\* parent is completed with a completion date, a completion date it already had
\* is kept, the child has projectId null and parentTaskId = parent, and no other
\* task changes; the parent's own links are kept.
C10_LinkTaskToTaskTasks ==
  (last.op = "linkTaskToTask" /\ hasId(last.tasks, last.a) /\ hasId(last.tasks, last.b))
    => /\ Len(tasks) = Len(last.tasks)
       /\ \A i \in 1..Len(tasks) :
            LET before == last.tasks[i]
                after == tasks[i]
            IN /\ after.id = before.id
               /\ before.id = last.b =>
                    /\ after.completed
                    /\ after.completionDate # NULL
                    /\ before.completionDate # NULL
                         => after.completionDate = before.completionDate
                    /\ after.projectId = before.projectId
                    /\ after.parentTaskId = before.parentTaskId
               /\ before.id = last.a =>
                    /\ after.projectId = NULL
                    /\ after.parentTaskId = last.b
                    /\ after.completed = before.completed
                    /\ after.completionDate = before.completionDate
               /\ before.id \notin {last.a, last.b} => after = before

\* linkTaskToTask has just acted on a parent that carried an earlier completion
\* date, with a third task present.
C10_Witness ==
  /\ last.op = "linkTaskToTask"
  /\ hasId(last.tasks, last.a) /\ hasId(last.tasks, last.b)
  /\ findById(last.tasks, last.b).completionDate \notin {NULL, now}
  /\ Len(tasks) > 2


\* The tasks under project p in the flat list: those with projectId = p and
\* everything below them through parentTaskId, as a least fixed point.
RECURSIVE closeUnderChildren(_, _)
closeUnderChildren(S, allTasks) ==
  LET S2 == S \cup {allTasks[i].id : i \in {j \in 1..Len(allTasks) : allTasks[j].parentTaskId \in S}}
  IN IF S2 = S THEN S ELSE closeUnderChildren(S2, allTasks)

tasksUnder(p, allTasks) ==
  closeUnderChildren({allTasks[i].id : i \in {j \in 1..Len(allTasks) : allTasks[j].projectId = p}},
                     allTasks)

\* C5: moveProjectGroup(p, delta) adds delta exactly once to the position of p
\* and of every task under p (projectId = p, or nested below such a task).
C5_MovesGroupOnce ==
  last.op = "moveProjectGroup"
    => /\ findById(projects, last.a).position
            = translate(findById(last.projects, last.a).position, last.delta)
       /\ Len(tasks) = Len(last.tasks)
       /\ \A i \in 1..Len(tasks) :
            last.tasks[i].id \in tasksUnder(last.a, last.tasks)
              => tasks[i].position = translate(last.tasks[i].position, last.delta)

\* moveProjectGroup has just moved a project with a task that is in its cached
\* list and in the flat list, and a subtask nested below it.
C5_Witness ==
  /\ last.op = "moveProjectGroup"
  /\ \E i, j \in 1..Len(last.tasks) :
       /\ last.tasks[i].projectId = last.a
       /\ includes(findById(last.projects, last.a).tasks, last.tasks[i].id)
       /\ last.tasks[j].parentTaskId = last.tasks[i].id
       /\ tasks[j].position = translate(last.tasks[j].position, last.delta)

\* C6: moveProjectGroup(p, delta) leaves the position of every other project
\* and of every task not under p unchanged.
C6_MoveFrame ==
  last.op = "moveProjectGroup"
    => /\ \A i \in 1..Len(projects) :
            projects[i].id # last.a => projects[i].position = last.projects[i].position
       /\ \A i \in 1..Len(tasks) :
            last.tasks[i].id \notin tasksUnder(last.a, last.tasks)
              => tasks[i].position = last.tasks[i].position

\* C8: after finishProject(p), p is Completed and collapsed, no task under p is
\* in the priority list, and the remaining ids keep their relative order.
C8_FinishProject ==
  last.op = "finishProject"
    => /\ findById(projects, last.a).status = Completed
       /\ findById(projects, last.a).isCollapsed
       /\ \A id \in tasksUnder(last.a, tasks) : ~includes(prioritizedTaskIds, id)
       /\ prioritizedTaskIds
            = SelectSeq(last.prio, LAMBDA id : includes(prioritizedTaskIds, id))

\* finishProject(p) then reactivateProject(p): the tasks under p that were in the
\* priority list before finishProject and are not completed, and those of them
\* finishProject struck from the list.
isCompleted(allTasks, id) == hasId(allTasks, id) /\ findById(allTasks, id).completed

previouslyPrioritized ==
  {id \in tasksUnder(last.a, tasks) : includes(last.finishPrio, id) /\ ~isCompleted(tasks, id)}

reAdded == previouslyPrioritized \ toSet(last.prio)

indexesOf(s, x) == {i \in 1..Len(s) : s[i] = x}

\* Where x first stands in s; Len(s) + 1 when it does not.
firstIndexOf(s, x) ==
  IF indexesOf(s, x) = {} THEN Len(s) + 1
  ELSE CHOOSE i \in indexesOf(s, x) : \A j \in indexesOf(s, x) : i <= j

C4_TerminatesWithClosure ==
  <>[](/\ bfsPc = "done"
       /\ toSet(bfsVisited) = closeUnderChildren(toSet(bfsStartTaskIds), bfsAllTasks)
       /\ bfsVisited = getAllDescendantTaskIds(bfsStartTaskIds, bfsAllTasks)
       /\ \A id \in toSet(bfsVisited) : count(bfsVisited, id) = 1)

\* The traversal has returned on a collection with a two-task cycle entered from
\* a seed above it, leaving one task outside the result.
C4_Witness ==
  /\ bfsPc = "done"
  /\ \E i, j, k \in 1..Len(bfsAllTasks) :
       /\ i # j
       /\ bfsAllTasks[i].parentTaskId = bfsAllTasks[j].id
       /\ bfsAllTasks[j].parentTaskId = bfsAllTasks[i].id
       /\ includes(bfsStartTaskIds, bfsAllTasks[i].id)
       /\ includes(bfsVisited, bfsAllTasks[j].id)
       /\ ~includes(bfsVisited, bfsAllTasks[k].id)

\* C11: after deleteProject(p) the task collection holds no task that was under
\* p (projectId = p or below such a task), the priority list none of their ids,
\* and p is gone; every other task, project and priority entry is unchanged, in
\* its order.
C11_DeleteProjectCascade ==
  last.op = "deleteProject"
    => LET under == tasksUnder(last.a, last.tasks)
       IN /\ tasks = SelectSeq(last.tasks, LAMBDA t : t.id \notin under)
          /\ prioritizedTaskIds = SelectSeq(last.prio, LAMBDA id : id \notin under)
          /\ projects = SelectSeq(last.projects, LAMBDA q : q.id # last.a)
          /\ ~hasId(projects, last.a)

\* deleteProject has just removed a project with a task nested below one of its
\* tasks, and struck an entry from the priority list.
C11_Witness ==
  /\ last.op = "deleteProject"
  /\ hasId(last.projects, last.a)
  /\ \E i, j \in 1..Len(last.tasks) :
       /\ last.tasks[i].projectId = last.a
       /\ last.tasks[j].parentTaskId = last.tasks[i].id
       /\ last.tasks[j].projectId = NULL
       /\ includes(last.prio, last.tasks[j].id)
       /\ ~hasId(tasks, last.tasks[j].id)

\* The positions of s that hold the first occurrence of their id.
firstPositions(s) == {k \in 1..Len(s) : \A j \in 1..(k - 1) : s[j] # s[k]}

\* C12: setPrioritizedTasks(s) stores s with every repeated id removed, keeping
\* first occurrences in their order, and sends the same sequence to the remote
\* app-state document.
C12_FirstOccurrenceDedup ==
  last.op = "setPrioritizedTasks"
    => LET s == last.ids
           P == firstPositions(s)
       IN /\ Len(prioritizedTaskIds) = Cardinality(P)
          /\ \A k \in P : prioritizedTaskIds[Cardinality({j \in P : j <= k})] = s[k]
          /\ remotePrio = prioritizedTaskIds

\* setPrioritizedTasks has just been given an array whose first id comes again
\* after a different one.
C12_Witness ==
  /\ last.op = "setPrioritizedTasks"
  /\ Len(last.ids) >= 3
  /\ last.ids[1] = last.ids[3]
  /\ last.ids[1] # last.ids[2]
  /\ Len(prioritizedTaskIds) = 2

\* C13: reactivateProject(p) sets p to InProgress and not collapsed, keeps every
\* existing priority-list entry at its position, and appends at the tail exactly
\* the ids of the not-completed tasks under p that are not already in the list,
\* each once.
C13_ReactivateAppends ==
  (last.op = "reactivateProject" /\ hasId(last.projects, last.a))
    => LET prev == last.prio
           active == {id \in tasksUnder(last.a, tasks) : ~isCompleted(tasks, id)}
           new == active \ toSet(prev)
       IN /\ findById(projects, last.a).status = InProgress
          /\ ~findById(projects, last.a).isCollapsed
          /\ Len(prioritizedTaskIds) = Len(prev) + Cardinality(new)
          /\ SubSeq(prioritizedTaskIds, 1, Len(prev)) = prev
          /\ toSet(SubSeq(prioritizedTaskIds, Len(prev) + 1, Len(prioritizedTaskIds))) = new

\* C14: every store operation that follows parentTaskId links or child links
\* terminates on every task collection, also on one whose parentTaskId links
\* form a cycle none of whose tasks has a projectId: no call is still walking
\* the links after it has followed more of them than there are tasks.
C14_TraversalsTerminate ==
  last.op # "diverged"

\* C15: deleteTask(t) removes exactly task t from the flat task collection,
\* removes t from its owning project's cached list and from the priority list,
\* and changes no other task: every child of t stays in the collection with
\* parentTaskId still equal to t's id, and no other record is touched.
C15_DeleteTaskFrame ==
  (last.op = "deleteTask" /\ hasId(last.tasks, last.a))
    => LET t == findById(last.tasks, last.a)
       IN /\ tasks = SelectSeq(last.tasks, LAMBDA u : u.id # last.a)
          /\ \A i \in 1..Len(last.tasks) :
               last.tasks[i].parentTaskId = last.a /\ last.tasks[i].id # last.a
                 => /\ hasId(tasks, last.tasks[i].id)
                    /\ findById(tasks, last.tasks[i].id).parentTaskId = last.a
          /\ (t.projectId # NULL /\ hasId(projects, t.projectId))
               => ~includes(findById(projects, t.projectId).tasks, last.a)
          /\ prioritizedTaskIds = filterOut(last.prio, last.a)
          /\ ~includes(prioritizedTaskIds, last.a)

\* A task that was in its project's cached list and had a child has just been
\* deleted, and the child is still there.
C15_Witness ==
  /\ last.op = "deleteTask"
  /\ hasId(last.tasks, last.a)
  /\ findById(last.tasks, last.a).projectId # NULL
  /\ hasId(last.projects, findById(last.tasks, last.a).projectId)
  /\ includes(findById(last.projects, findById(last.tasks, last.a).projectId).tasks, last.a)
  /\ \E i \in 1..Len(tasks) : tasks[i].parentTaskId = last.a

\* C16: for every existing task t and project p, after unlinkTask(p, t) task t
\* has projectId null in the local task collection and is absent from p's
\* cached list, and the remote task document the call wrote has projectId null
\* as well, so that local and remote agree on t's link.
C16_UnlinkTaskAgrees ==
  (/\ last.op = "unlinkTask"
   /\ hasId(last.projects, last.a)
   /\ hasId(last.tasks, last.b))
    => /\ findById(tasks, last.b).projectId = NULL
       /\ ~includes(findById(projects, last.a).tasks, last.b)
       /\ docExists(remoteTasks, last.b)
            => findById(remoteTasks, last.b).projectId = NULL

\* The id of the k-th ancestor of task id along parentTaskId, null once the
\* chain has ended or has reached a task that is not in the collection.
RECURSIVE ancestorAt(_, _, _)
ancestorAt(allTasks, id, k) ==
  IF k = 0 THEN id
  ELSE LET below == ancestorAt(allTasks, id, k - 1)
       IN IF below = NULL \/ ~hasId(allTasks, below) THEN NULL
          ELSE findById(allTasks, below).parentTaskId

hasProject(allTasks, id) ==
  id # NULL /\ hasId(allTasks, id) /\ findById(allTasks, id).projectId # NULL

\* The ancestors of id that carry a projectId and have no ancestor of id with a
\* projectId, nor the end of the chain, below them.
nearestOwners(allTasks, id) ==
  {k \in 1..(Len(allTasks) + 1) :
     /\ hasProject(allTasks, ancestorAt(allTasks, id, k))
     /\ \A j \in 1..(k - 1) : /\ hasId(allTasks, ancestorAt(allTasks, id, j))
                              /\ ~hasProject(allTasks, ancestorAt(allTasks, id, j))}

nearestProject(allTasks, id) ==
  IF nearestOwners(allTasks, id) = {} THEN NULL
  ELSE findById(allTasks, ancestorAt(allTasks, id, CHOOSE k \in nearestOwners(allTasks, id) : TRUE)).projectId

\* C17: when unlinkTaskFromParent(c) returns on a task with a parent, c has
\* parentTaskId null and the projectId of its nearest ancestor that carries one
\* (null if the chain ends or reaches a missing task first), and every other
\* task, c's descendants included, is as before; on a task without a parent the
\* call changes nothing.
C17_UnlinkFromParent ==
  [][last'.op = "unlinkTaskFromParent"
       => LET c == last'.a
          IN IF findById(tasks, c).parentTaskId # NULL
             THEN /\ Len(tasks') = Len(tasks)
                  /\ \A i \in 1..Len(tasks) :
                       tasks'[i] = IF tasks[i].id = c
                                   THEN [tasks[i] EXCEPT !.parentTaskId = NULL,
                                                         !.projectId = nearestProject(tasks, c)]
                                   ELSE tasks[i]
             ELSE UNCHANGED <<tasks, projects, prioritizedTaskIds,
                              remoteTasks, remoteProjects, remotePrio>>]_vars

\* unlinkTaskFromParent has just returned on a task whose parent had no project
\* and whose grandparent had one, and which has a child of its own.
C17_Witness ==
  /\ last.op = "unlinkTaskFromParent"
  /\ hasId(last.tasks, last.a)
  /\ LET c == findById(last.tasks, last.a)
     IN /\ c.parentTaskId # NULL
        /\ hasId(last.tasks, c.parentTaskId)
        /\ findById(last.tasks, c.parentTaskId).projectId = NULL
        /\ hasProject(last.tasks, findById(last.tasks, c.parentTaskId).parentTaskId)
        /\ findById(tasks, last.a).projectId # NULL

\* C18: moveTaskSubtree(r, delta) with a nonzero delta and a known r adds delta
\* to the position of r and of each of its descendants, and changes no other
\* task and no project; with delta = (0,0) or an unknown r it changes nothing,
\* locally or remotely.
C18_MoveTaskSubtree ==
  [][last'.op = "moveTaskSubtree"
       => LET r == last'.a
              delta == last'.delta
              subtree == closeUnderChildren({r}, tasks)
          IN IF delta # [dx |-> 0, dy |-> 0] /\ hasId(tasks, r)
             THEN /\ Len(tasks') = Len(tasks)
                  /\ \A i \in 1..Len(tasks) :
                       tasks'[i] = IF tasks[i].id \in subtree
                                   THEN [tasks[i] EXCEPT !.position = translate(@, delta)]
                                   ELSE tasks[i]
                  /\ projects' = projects
             ELSE UNCHANGED <<tasks, projects, prioritizedTaskIds,
                              remoteTasks, remoteProjects, remotePrio>>]_vars

\* moveTaskSubtree has just moved a task and its child by a nonzero delta
\* while a task outside the subtree stayed as it was.
C18_Witness ==
  /\ last.op = "moveTaskSubtree"
  /\ last.delta # [dx |-> 0, dy |-> 0]
  /\ \E i, k \in 1..Len(last.tasks) :
       /\ last.tasks[i].parentTaskId = last.a
       /\ last.tasks[i].id # last.a
       /\ tasks[i].position = translate(last.tasks[i].position, last.delta)
       /\ last.tasks[k].id \notin closeUnderChildren({last.a}, last.tasks)
       /\ tasks[k] = last.tasks[k]

\* The sum of f over the finite set S.
RECURSIVE sumOf(_, _)
sumOf(f, S) ==
  IF S = {} THEN 0
  ELSE LET x == CHOOSE y \in S : TRUE
       IN f[x] + sumOf(f, S \ {x})

\* Task a comes before task b in (title, id) order.
titleIdBefore(a, b) ==
  \/ titleRank[a.title] < titleRank[b.title]
  \/ titleRank[a.title] = titleRank[b.title] /\ a.id < b.id

kidsIn(allTasks, id) == {t \in toSet(allTasks) : t.parentTaskId = id}

rootsIn(allTasks, p) == {t \in toSet(allTasks) : t.projectId = p /\ t.parentTaskId = NULL}

\* rows(t): 1 for a leaf, the sum of rows(child) otherwise.
RECURSIVE rowsOf(_, _)
rowsOf(allTasks, t) ==
  IF kidsIn(allTasks, t.id) = {} THEN 1
  ELSE sumOf([k \in kidsIn(allTasks, t.id) |-> rowsOf(allTasks, k)], kidsIn(allTasks, t.id))

\* The first row of t's band: for a root of p, the rows of the roots before it
\* and one gap row for each; for a child, the band of its parent after the
\* rows of the children before it.
RECURSIVE bandStart(_, _, _)
bandStart(allTasks, p, t) ==
  IF t.parentTaskId = NULL
  THEN LET earlier == {r \in rootsIn(allTasks, p) : titleIdBefore(r, t)}
       IN sumOf([r \in earlier |-> rowsOf(allTasks, r) + 1], earlier)
  ELSE LET earlier == {k \in kidsIn(allTasks, t.parentTaskId) : titleIdBefore(k, t)}
       IN bandStart(allTasks, p, findById(allTasks, t.parentTaskId))
            + sumOf([k \in earlier |-> rowsOf(allTasks, k)], earlier)

\* C19: autoArrangeProjectTasks(p) arranges exactly the tasks under p, puts
\* task t on row bandStart(t) + floor((rows(t) - 1) / 2), where the band of the
\* k-th root in (title, id) order starts after the bands of the roots before it
\* and one gap row each and the children of a task are stacked inside its band
\* in (title, id) order, and uses totalRows = sum of rows(root) + (n - 1).
C19_RowsAndBands ==
  (last.op = "autoArrangeProjectTasks" /\ last.rowDepthById # <<>>)
    => LET p == last.a
           roots == rootsIn(last.tasks, p)
       IN /\ toSet(idsOf(last.rowDepthById)) = tasksUnder(p, last.tasks)
          /\ Len(last.rowDepthById) = Cardinality(tasksUnder(p, last.tasks))
          /\ \A i \in 1..Len(last.rowDepthById) :
               LET t == findById(last.tasks, last.rowDepthById[i].id)
               IN last.rowDepthById[i].row
                    = bandStart(last.tasks, p, t) + ((rowsOf(last.tasks, t) - 1) \div 2)
          /\ last.totalRows
               = sumOf([r \in roots |-> rowsOf(last.tasks, r)], roots) + (Cardinality(roots) - 1)

rowOf(id) == findById(last.rowDepthById, id).row

\* The example: roots R1 (two leaf children) and R2 (one leaf child), R1 first
\* by title although created later, have just been arranged with totalRows 4,
\* R1 on row 0, its children on rows 0 and 1, and R2's band starting at row 3.
C19_Witness ==
  /\ last.op = "autoArrangeProjectTasks"
  /\ last.totalRows = 4
  /\ Len(last.rowDepthById) = 5
  /\ \E R1, R2 \in rootsIn(last.tasks, last.a) :
       /\ R2.id < R1.id
       /\ Cardinality(kidsIn(last.tasks, R1.id)) = 2
       /\ Cardinality(kidsIn(last.tasks, R2.id)) = 1
       /\ rowsOf(last.tasks, R1) = 2
       /\ rowsOf(last.tasks, R2) = 1
       /\ rowOf(R1.id) = 0
       /\ {rowOf(k.id) : k \in kidsIn(last.tasks, R1.id)} = {0, 1}
       /\ rowOf(R2.id) = 3
       /\ \A k \in kidsIn(last.tasks, R2.id) : rowOf(k.id) = 3

depthOf(id) == findById(last.rowDepthById, id).depth

arrangedYs == {findById(tasks, last.rowDepthById[i].id).position.y : i \in 1..Len(last.rowDepthById)}

\* C20: after autoArrangeProjectTasks(p) every arranged task at grid cell
\* (row, depth) has x = p.x + 280 * depth and y = p.y + 140 * (row -
\* (totalRows - 1) / 2), stated here on doubled values; roots have depth 1 and
\* a child is one deeper than its parent; and the least and the greatest y of
\* the arranged tasks add up to 2 * p.y.
C20_CentredGrid ==
  (last.op = "autoArrangeProjectTasks" /\ last.rowDepthById # <<>>)
    => LET p == findById(projects, last.a)
       IN /\ \A i \in 1..Len(last.rowDepthById) :
               LET rd == last.rowDepthById[i]
                   t == findById(tasks, rd.id)
               IN /\ t.position.x = p.position.x + 280 * rd.depth
                  /\ 2 * t.position.y
                       = 2 * p.position.y + 140 * (2 * rd.row - (last.totalRows - 1))
                  /\ rd.depth = IF t.parentTaskId = NULL THEN 1
                                ELSE depthOf(t.parentTaskId) + 1
          /\ \E lo, hi \in arrangedYs :
               /\ \A y \in arrangedYs : lo <= y /\ y <= hi
               /\ lo + hi = 2 * p.position.y

\* A project with two roots, one of them with a child and a grandchild, has
\* just been arranged on an even number of rows, so that the centre line falls
\* between two rows.
C20_Witness ==
  /\ last.op = "autoArrangeProjectTasks"
  /\ last.totalRows = 4
  /\ \E i \in 1..Len(last.rowDepthById) : last.rowDepthById[i].depth = 3
  /\ Cardinality(rootsIn(last.tasks, last.a)) = 2
  /\ Cardinality(arrangedYs) > 2

\* The tasks autoArrangeProjectTasks(p) lays out: the roots of p (projectId = p
\* and no parent) and everything below them through parentTaskId.
arrangeReach(p, allTasks) ==
  closeUnderChildren({allTasks[i].id : i \in {j \in 1..Len(allTasks) :
                         allTasks[j].projectId = p /\ allTasks[j].parentTaskId = NULL}},
                     allTasks)

\* Records a and b agree on every field but position.
sameButPosition(a, b) == [a EXCEPT !.position = b.position] = b

\* C21: autoArrangeProjectTasks(p) gives exactly one grid cell to each task
\* reachable by child links from p's roots and changes nothing but the position
\* of those tasks, locally and in their remote documents: the projects, the
\* priority list, every link and completion flag and every task outside the
\* reachable set (one whose parent lies outside it included) stay as they were;
\* with an unknown project or no root it changes nothing and writes nothing.
C21_ArrangeFrame ==
  [][last'.op = "autoArrangeProjectTasks" =>
       LET p == last'.a
           reach == IF hasId(projects, p) THEN arrangeReach(p, tasks) ELSE {}
       IN /\ projects' = projects
          /\ prioritizedTaskIds' = prioritizedTaskIds
          /\ remoteProjects' = remoteProjects
          /\ remotePrio' = remotePrio
          /\ Len(tasks') = Len(tasks)
          /\ Len(remoteTasks') = Len(remoteTasks)
          /\ \A i \in 1..Len(tasks) :
               /\ sameButPosition(tasks[i], tasks'[i])
               /\ tasks[i].id \notin reach => tasks'[i] = tasks[i]
          /\ \A i \in 1..Len(remoteTasks) :
               /\ sameButPosition(remoteTasks[i], remoteTasks'[i])
               /\ remoteTasks[i].id \notin reach => remoteTasks'[i] = remoteTasks[i]
          /\ toSet(idsOf(last'.rowDepthById)) = reach
          /\ \A id \in reach : count(idsOf(last'.rowDepthById), id) = 1
          /\ reach = {} => tasks' = tasks /\ remoteTasks' = remoteTasks
  ]_vars

\* A project has just been arranged: its root and the root's child moved, and
\* a task of the same project whose parent is not in the collection stayed
\* where it was.
C21_Witness ==
  /\ last.op = "autoArrangeProjectTasks"
  /\ Len(last.rowDepthById) = 2
  /\ \E i, j, k \in 1..Len(tasks) :
       /\ tasks[i].projectId = last.a /\ tasks[i].parentTaskId = NULL
       /\ tasks[j].parentTaskId = tasks[i].id
       /\ tasks[i].position # last.tasks[i].position
       /\ tasks[j].position # last.tasks[j].position
       /\ tasks[k].projectId = last.a
       /\ tasks[k].parentTaskId # NULL
       /\ ~hasId(tasks, tasks[k].parentTaskId)
       /\ tasks[k] = last.tasks[k]
       /\ findById(remoteTasks, tasks[i].id).position = tasks[i].position

\* The ids the specification makes eligible for display: the task exists, is
\* not completed, and the project of the nearest task on its parent chain that
\* carries a projectId is absent or InProgress.
RECURSIVE resolvedRootOf(_, _)
resolvedRootOf(id, fuel) ==
  IF fuel = 0 \/ id = NULL \/ ~hasId(tasks, id) THEN NULL
  ELSE IF findById(tasks, id).projectId # NULL THEN findById(tasks, id).projectId
  ELSE resolvedRootOf(findById(tasks, id).parentTaskId, fuel - 1)

eligibleForDisplay(id) ==
  /\ hasId(tasks, id)
  /\ ~findById(tasks, id).completed
  /\ LET p == resolvedRootOf(id, Len(tasks))
     IN p = NULL \/ ~hasId(projects, p) \/ findById(projects, p).status = InProgress

eligibleStored == SelectSeq(unique(prioritizedTaskIds), eligibleForDisplay)

\* C22: the canvas badges, the project rows and the priority view all show the
\* stored priority sequence restricted to the eligible ids, so every eligible
\* id, an unlinked task's included, has the same rank in each of them.
C22_SameRankEverywhere ==
  \A id \in toSet(eligibleStored) :
    /\ priorityBadge(filteredPrioritized, id) = priorityBadge(eligibleStored, id)
    /\ priorityBadge(prioritizedDisplayOrder, id) = priorityBadge(eligibleStored, id)
    /\ priorityBadge(sortedTasks, id) = priorityBadge(eligibleStored, id)

\* The operations that change the local priority list.
PrioWriters ==
  {"addTask", "setPrioritizedTasks", "updateTask", "deleteTask", "deleteProject",
   "finishProject", "reactivateProject", "linkTaskToTask"}

\* C23: an operation that has changed the local priority list has written the
\* resulting list to the remote app-state document: with its writes completed
\* the remote prioritizedTaskIds equals the local list, so the next app-state
\* snapshot brings no removed id back.
C23_PrioWrittenThrough ==
  (last.op \in PrioWriters /\ prioritizedTaskIds # last.prio)
    => remotePrio = prioritizedTaskIds

\* C29: after addTask the new task is not completed and has no parent, its id
\* is the last element of the priority list, and the entries the list had
\* before are all still there, in the order they had.
C29_AddTaskAppends ==
  last.op = "addTask"
    => /\ hasId(tasks, last.a)
       /\ ~findById(tasks, last.a).completed
       /\ findById(tasks, last.a).parentTaskId = NULL
       /\ prioritizedTaskIds # <<>>
       /\ prioritizedTaskIds[Len(prioritizedTaskIds)] = last.a
       /\ SubSeq(prioritizedTaskIds, 1, Len(prioritizedTaskIds) - 1) = last.prio

\* A task has just been added to a list that held two ids, the later created
\* one first.
C29_Witness ==
  /\ last.op = "addTask"
  /\ Len(last.prio) = 2
  /\ last.prio[1] > last.prio[2]
  /\ prioritizedTaskIds = Append(last.prio, last.a)

\* taskData.completed is truthy.
completedTruthy(taskData) == "completed" \in DOMAIN taskData /\ taskData.completed = TRUE

\* C30: after updateTask(t, data) with a truthy data.completed the priority
\* list is the previous one without t, the other ids in their order; after any
\* other updateTask the priority list is the previous one.
C30_UpdateTaskPrio ==
  last.op = "updateTask"
    => IF completedTruthy(last.data)
       THEN /\ ~includes(prioritizedTaskIds, last.a)
            /\ prioritizedTaskIds = SelectSeq(last.prio, LAMBDA id : id # last.a)
       ELSE prioritizedTaskIds = last.prio

\* A task in the middle of a list of three has just been completed: the other
\* two ids remain, in their order.
C30_Witness ==
  /\ last.op = "updateTask"
  /\ completedTruthy(last.data)
  /\ Len(last.prio) = 3
  /\ last.prio[2] = last.a
  /\ prioritizedTaskIds = <<last.prio[1], last.prio[3]>>

\* C28: at every moment at most one debounce timer is pending per note id; an
\* updateMemo on a note with a pending timer cancels that timer before it
\* schedules the new one and touches the timer of no other note; and a burst
\* of edits to one note, each less than the debounce delay after the one
\* before, is followed by exactly one remote write of that note, made the
\* debounce delay after the last edit of the burst.
schedules(e) == e.kind = "edit" /\ DOMAIN e.payload # {}

\* The next scheduling edit of the same note after entry i, or past the end.
nextEdit(i) ==
  LET later == {j \in (i + 1)..Len(memoLog) :
                  schedules(memoLog[j]) /\ memoLog[j].id = memoLog[i].id}
  IN IF later = {} THEN Len(memoLog) + 1 ELSE CHOOSE j \in later : \A k \in later : j <= k

writesAfter(i) ==
  {j \in (i + 1)..(nextEdit(i) - 1) : memoLog[j].kind = "write" /\ memoLog[j].id = memoLog[i].id}

endsBurst(i) ==
  \/ nextEdit(i) > Len(memoLog)
  \/ memoLog[nextEdit(i)].at - memoLog[i].at >= debounceTicks

oneTimerPerMemo ==
  \A t \in timers, u \in timers : t.memoId = u.memoId => t = u

oneWritePerBurst ==
  \A i \in 1..Len(memoLog) :
    schedules(memoLog[i]) =>
      IF endsBurst(i) /\ now >= memoLog[i].at + debounceTicks
      THEN /\ Cardinality(writesAfter(i)) = 1
           /\ \A j \in writesAfter(i) :
                /\ memoLog[j].at = memoLog[i].at + debounceTicks
                /\ memoLog[j].payload = memoLog[i].payload
      ELSE writesAfter(i) = {}

cancelsBeforeScheduling ==
  (last'.op = "updateMemo" /\ DOMAIN last'.data # {}) =>
    /\ \A t \in timers : t.memoId = last'.a => t \notin timers'
    /\ \A t \in timers : t.memoId # last'.a => t \in timers'
    /\ \E t \in timers' \ timers : t.memoId = last'.a /\ t.due = now' + debounceTicks

C28_DebounceOneTimerOneWrite ==
  /\ [](oneTimerPerMemo /\ oneWritePerBurst)
  /\ [][cancelsBeforeScheduling]_vars

\* Two edits of one note a tenth of a second apart, the second one cancelling
\* the timer of the first, then the one write, while the timer of another note
\* is pending.
C28_Witness ==
  \E i \in 1..Len(memoLog), j \in 1..Len(memoLog) :
    /\ i < j
    /\ schedules(memoLog[i])
    /\ nextEdit(i) = j
    /\ ~endsBurst(i)
    /\ Cardinality(writesAfter(j)) = 1
    /\ \E t \in timers : t.memoId # memoLog[i].id

\* C26: if no remote call has been rejected, then whatever the order in which
\* the server committed the calls, once no call is in flight and no listener
\* has a snapshot left to deliver, the local tasks are the remote task
\* documents and the local projects, without their cached task lists, are the
\* remote project documents.
quiescent == inflight = {} /\ pendingSnapshots = {}

sameDocs(local, remote) == Len(local) = Len(remote) /\ toSet(local) = toSet(remote)

localProjectDocs == [i \in 1..Len(projects) |-> projectDoc(projects[i])]

C26_QuiescentLocalEqualsRemote ==
  (quiescent /\ ~rejected) =>
    /\ sameDocs(tasks, remoteTasks)
    /\ sameDocs(localProjectDocs, remoteProjects)

\* Two calls settled in the reverse of the order they were made in, every
\* snapshot has been delivered, and a task is no longer where the store
\* loaded it.
C26_Witness ==
  /\ quiescent
  /\ ~rejected
  /\ \E i \in 1..Len(settled), j \in 1..Len(settled) : i < j /\ settled[i][1] > settled[j][1]
  /\ last.op = "tasksSnapshot"
  /\ \E i \in 1..Len(tasks) : tasks[i].position \notin {[x |-> 0, y |-> 0], [x |-> 100, y |-> 40]}

\* C25: a delivered snapshot of the tasks (projects, memos, app-state)
\* collection makes the local tasks (projects, notes, priority list) exactly
\* the remote documents at that moment, the priority list without its
\* duplicates, whatever the store held before; the other local collections
\* stay as they were, except that every project's cached task list is the
\* tasks of the task collection that carry its id.
cachesRecomputed ==
  \A i \in 1..Len(projects') : projects'[i].tasks = directTaskIdsOf(tasks', projects'[i].id)

projectDocsOf(ps) == [i \in 1..Len(ps) |-> projectDoc(ps[i])]

snapshotReplaces ==
  /\ last'.op = "tasksSnapshot" =>
       /\ tasks' = remoteTasks
       /\ projectDocsOf(projects') = projectDocsOf(projects)
       /\ cachesRecomputed
       /\ memos' = memos /\ prioritizedTaskIds' = prioritizedTaskIds
  /\ last'.op = "projectsSnapshot" =>
       /\ projectDocsOf(projects') = remoteProjects
       /\ cachesRecomputed
       /\ tasks' = tasks /\ memos' = memos /\ prioritizedTaskIds' = prioritizedTaskIds
  /\ last'.op = "memosSnapshot" =>
       /\ memos' = remoteMemos
       /\ tasks' = tasks /\ projects' = projects /\ prioritizedTaskIds' = prioritizedTaskIds
  /\ last'.op = "stateSnapshot" =>
       /\ prioritizedTaskIds' = unique(remotePrio)
       /\ tasks' = tasks /\ projects' = projects /\ memos' = memos

C25_SnapshotReplacesLocal == [][snapshotReplaces]_vars

\* A tasks snapshot delivered while a later call is still in flight: the
\* store's optimistic change is gone, and a project's cached list changed
\* with it.
C25_Witness ==
  /\ last.op = "tasksSnapshot"
  /\ inflight # {}
  /\ last.tasks # tasks
  /\ tasks = remoteTasks
  /\ \E i \in 1..Len(projects) : projects[i].tasks # last.projects[i].tasks

\* C24: after sign-out the local projects, the local tasks, the local notes
\* and the priority list are all empty.
C24_SignOutEmpties ==
  last.op = "signOut" =>
    /\ projects = <<>>
    /\ tasks = <<>>
    /\ memos = <<>>
    /\ prioritizedTaskIds = <<>>

\* C27: when a remote call of a store operation fails, the rejection has a
\* handler at the call site, so no rejection is ever unhandled, and the
\* failure leaves the local projects, tasks and priority list as they were.
C27_FailuresCaught ==
  last.op = "writeRejected" =>
    /\ ~unhandled
    /\ projects = last.projects
    /\ tasks = last.tasks
    /\ prioritizedTaskIds = last.prio

\* C34: in every state, for every project p, the ids of p's cached task list
\* are exactly the ids of the tasks whose projectId is p, each of them once.
noDuplicates(s) == \A i \in 1..Len(s), j \in 1..Len(s) : s[i] = s[j] => i = j

C34_CacheIsProjection ==
  \A i \in 1..Len(projects) :
    /\ toSet(projects[i].tasks) = toSet(directTaskIdsOf(tasks, projects[i].id))
    /\ noDuplicates(projects[i].tasks)

\* C35: when the debounce timer of a note has run and its write has reached
\* the document, the remote document and the local note agree on every field
\* that an updateMemo call of the burst changed and the local note still
\* shows, not only on the fields of the last call.
\* The entries of the burst the last write closes: the edits of its note
\* since the write of that note before it.
burstOfLastWrite ==
  LET n == Len(memoLog)
      m == memoLog[n].id
      before == {j \in 1..(n - 1) : memoLog[j].kind = "write" /\ memoLog[j].id = m}
      from == IF before = {} THEN 0 ELSE CHOOSE j \in before : \A k \in before : k <= j
  IN {j \in (from + 1)..(n - 1) : memoLog[j].id = m /\ schedules(memoLog[j])}

C35_WriteCarriesWholeBurst ==
  (last.op = "memoTimer" /\ hasId(remoteMemos, last.a) /\ hasId(memos, last.a)) =>
    \A j \in burstOfLastWrite :
      \A k \in DOMAIN memoLog[j].payload :
        findById(memos, last.a)[k] = memoLog[j].payload[k] =>
          findById(remoteMemos, last.a)[k] = findById(memos, last.a)[k]

\* C39: once the store has unmounted no debounce timer is pending, and the log
\* has no note write after the unmount.
C39_UnmountClearsTimers ==
  \A i \in 1..Len(memoLog) :
    memoLog[i].kind = "unmount" =>
      /\ timers = {}
      /\ \A j \in (i + 1)..Len(memoLog) : memoLog[j].kind # "write"

\* An edit, the unmount within the delay, and the clock past the moment the
\* edit's timer was due.
C39_Witness ==
  \E i \in 1..Len(memoLog), j \in 1..Len(memoLog) :
    /\ i < j
    /\ uid # NULL
    /\ schedules(memoLog[i])
    /\ memoLog[j].kind = "unmount"
    /\ memoLog[j].at < memoLog[i].at + debounceTicks
    /\ now > memoLog[i].at + debounceTicks

\* C32: after any sequence of addTask and addProject calls, two of them at the
\* same clock reading included, no two tasks share an id and no two projects
\* share an id.
C32_IdsUnique == noDuplicates(idsOf(tasks)) /\ noDuplicates(idsOf(projects))

\* C38: for an order without duplicates that holds dragId, and any integer
\* insertIndex, reorderWithInsert returns a permutation of order with dragId at
\* index min(max(insertIndex, 0), length(order) - 1), counted from 0, and the
\* other ids in the order they had; and the list a committed drag stores has
\* no duplicates.
C38_ReorderWithInsert ==
  /\ (last.op = "handlePointerMove" /\ noDuplicates(last.ids) /\ includes(last.ids, last.a)) =>
       /\ Len(dragState.order) = Len(last.ids)
       /\ toSet(dragState.order) = toSet(last.ids)
       /\ noDuplicates(dragState.order)
       /\ dragState.order[mathMin(mathMax(last.b, 0), Len(last.ids) - 1) + 1] = last.a
       /\ SelectSeq(dragState.order, LAMBDA id : id # last.a)
            = SelectSeq(last.ids, LAMBDA id : id # last.a)
  /\ last.op = "setPrioritizedTasks" =>
       /\ noDuplicates(prioritizedTaskIds)
       /\ prioritizedTaskIds = last.ids

\* A move of the first of three tasks to the index in the middle.
C38_Witness ==
  /\ last.op = "handlePointerMove"
  /\ Len(last.ids) = MaxTasks
  /\ noDuplicates(last.ids)
  /\ last.ids[1] = last.a
  /\ last.b = 1
  /\ dragState.order[2] = last.a

arrangedKids(id) ==
  {k \in toSet(idsOf(last.rowDepthById)) : findById(last.tasks, k).parentTaskId = id}

\* C36: after autoArrangeProjectTasks(p) no two arranged tasks have the same
\* (row, depth) or the same position, two arranged tasks of one depth are on
\* different rows, and the row of a task with arranged children is not above
\* the highest and not below the lowest row of those children.
C36_DistinctCells ==
  (last.op = "autoArrangeProjectTasks" /\ last.rowDepthById # <<>>)
    => /\ \A i, j \in 1..Len(last.rowDepthById) :
            LET a == last.rowDepthById[i]
                b == last.rowDepthById[j]
            IN i # j =>
                 /\ <<a.row, a.depth>> # <<b.row, b.depth>>
                 /\ findById(tasks, a.id).position # findById(tasks, b.id).position
                 /\ a.depth = b.depth => a.row # b.row
       /\ \A i \in 1..Len(last.rowDepthById) :
            LET t == last.rowDepthById[i]
            IN arrangedKids(t.id) # {} =>
                 /\ \E k \in arrangedKids(t.id) : rowOf(k) <= t.row
                 /\ \E k \in arrangedKids(t.id) : t.row <= rowOf(k)

\* A root with a leaf child and a child that has two children of its own, all
\* arranged: the root's row lies strictly between the rows of its children.
C36_Witness ==
  /\ last.op = "autoArrangeProjectTasks"
  /\ Len(last.rowDepthById) = 5
  /\ \E i \in 1..Len(last.rowDepthById) :
       LET t == last.rowDepthById[i]
       IN /\ t.depth = 1
          /\ Cardinality(arrangedKids(t.id)) = 2
          /\ \E k \in arrangedKids(t.id) : rowOf(k) < t.row
          /\ \E k \in arrangedKids(t.id) : t.row < rowOf(k)
          /\ \E k \in arrangedKids(t.id) : Cardinality(arrangedKids(k)) = 2

\* The tasks the call started from, in the order of their ids.
inIdOrder == [i \in 1..Len(last.tasks) |-> findById(last.tasks, givenTaskId(i))]

\* C37: the positions autoArrangeProjectTasks(p) gives depend on the tasks and
\* on p's position only, not on the order of the flat collection: every task
\* has the position the call gives it when the collection is in id order.
C37_OrderIndependent ==
  (last.op = "autoArrangeProjectTasks" /\ hasId(projects, last.a)) =>
    \E roots \in {arrangeRoots(inIdOrder, last.a)} :
    \E inProjectSet \in {collectEach(roots, inIdOrder, {})} :
    \E rowDepthById \in {assignRoots(inIdOrder, inProjectSet, roots, 0)} :
    \E currentRow \in {finalCurrentRow(inIdOrder, inProjectSet, roots, 0)} :
    \E totalRows \in {IF currentRow > 0 THEN currentRow - 1 ELSE 0} :
    \E arranged \in {arrangeTasksUpdater(inIdOrder, findById(last.projects, last.a),
                                         totalRows, rowDepthById)} :
      /\ toSet(rowDepthById) = toSet(last.rowDepthById)
      /\ \A i \in 1..Len(tasks) : tasks[i].position = findById(arranged, tasks[i].id).position

\* Two roots of one title and a third task have been arranged from a
\* collection that holds the root created later first.
C37_Witness ==
  /\ last.op = "autoArrangeProjectTasks"
  /\ Len(last.rowDepthById) = MaxShuffleTasks
  /\ \E i, j \in 1..Len(last.tasks) :
       /\ i < j
       /\ last.tasks[i].id > last.tasks[j].id
       /\ last.tasks[i].title = last.tasks[j].title
       /\ last.tasks[i].projectId = last.a
       /\ last.tasks[j].projectId = last.a
       /\ rowOf(last.tasks[j].id) < rowOf(last.tasks[i].id)

lacks(docs, id, field) == field \notin DOMAIN findById(docs, id)

\* The projects and the tasks have been read from the documents.
bothLoaded == Len(projects) = Len(remoteProjects) /\ Len(tasks) = Len(remoteTasks)

projectsDefaulted(origin) ==
  \A i \in 1..Len(projects) :
    /\ lacks(remoteProjects, projects[i].id, "status") => projects[i].status = InProgress
    /\ lacks(remoteProjects, projects[i].id, "position") => projects[i].position = origin

tasksDefaulted ==
  \A i \in 1..Len(tasks) :
    /\ lacks(remoteTasks, tasks[i].id, "position") => tasks[i].position = [x |-> 0, y |-> 0]
    /\ lacks(remoteTasks, tasks[i].id, "projectId") => tasks[i].projectId = NULL
    /\ lacks(remoteTasks, tasks[i].id, "parentTaskId") => tasks[i].parentTaskId = NULL
    /\ lacks(remoteTasks, tasks[i].id, "completed") => tasks[i].completed = FALSE

\* Every snapshot loads every document of its collection.
readsAll ==
  /\ last.op = "projectsSnapshot" => idsOf(projects) = idsOf(remoteProjects)
  /\ last.op = "tasksSnapshot" => idsOf(tasks) = idsOf(remoteTasks)

\* C40: a project loaded from a document without status is InProgress, a
\* project or task loaded from a document without position is at (0, 0), a
\* task loaded from a document without projectId, parentTaskId or completed
\* has null, null and false, and a snapshot loads every document it holds.
C40_LoadDefaults ==
  /\ projectsDefaulted([x |-> 0, y |-> 0])
  /\ tasksDefaulted
  /\ readsAll

snapshotOps == {"projectsSnapshot", "tasksSnapshot", "stateSnapshot", "memosSnapshot"}

\* C33: the listeners attached at sign-in are cancelled at sign-out: no
\* snapshot delivered while no user is signed in changes the projects, the
\* tasks, the notes or the priority list, and after a later sign-in one set of
\* listeners is attached, not two.
signOutCancels ==
  /\ (uid = NULL /\ last'.op \in snapshotOps) =>
       UNCHANGED <<projects, tasks, memos, prioritizedTaskIds>>
  /\ last'.op = "signIn" => Len(subscriptions') <= 1

C33_SignOutCancelsListeners == [][signOutCancels]_vars

\* C31: a call made right after another call, before any render, leaves the
\* state that the same call leaves when it reads the state the call before it
\* left: addTask appends the new id to the priority list as it then is, and
\* moveProjectGroup moves the tasks as they then are.
C31_SecondCallSeesFirst ==
  /\ last.op = "addTask" =>
       /\ idsOf(tasks) = Append(idsOf(last.tasks), last.a)
       /\ prioritizedTaskIds = addTaskNext(last.prio, last.a)
  /\ (last.op = "moveProjectGroup" /\ hasId(last.projects, last.a)) =>
       tasks = moveTasks(last.tasks,
                         allTaskIdsToMove(findById(last.projects, last.a), last.tasks),
                         last.delta)

====
